---- MODULE Spec2Model ----
(***************************************************************************)
(* Model of the agentic AI framework: the per-agent session/conversation   *)
(* store and chat-turn drivers (agents/agent_registry.py,                  *)
(* agents/brd_generator_agent.py), the two natural-language-to-SQL         *)
(* translators and the two database-session implementations                *)
(* (agents/database_chat_agent.py), and the agent registry / manager       *)
(* (agents/agent_registry.py, main.py).                                    *)
(*                                                                         *)
(* Text is modelled as a sequence of one-character strings, so that        *)
(* substring tests, case folding and concatenation are computed the way    *)
(* Python computes them.  Fixed message texts that no operation inspects   *)
(* are kept as a single element naming the text; the Markdown code fence   *)
(* of the database agent's replies is written <sql> ... </sql>.            *)
(*                                                                         *)
(* database_chat_agent.py holds two implementations of DatabaseChatAgent   *)
(* in one class body, one on top of OracleConnector (lines 159-543) and a  *)
(* mock (lines 544-1030); agent_registry.py holds two definitions of       *)
(* AgentRegistry.  Both of each are modelled; backend says which           *)
(* implementation of the database agent a behaviour runs.                  *)
(*                                                                         *)
(* st.rerun() ends the script run by an exception that is no Exception     *)
(* (it derives from BaseException), so no "except Exception" catches it.   *)
(***************************************************************************)
EXTENDS Integers, Sequences, FiniteSets, TLC

VARIABLES
    session_state,      \* st.session_state: key -> value
    agents,             \* AgentManager.agents of the manager in session_state
    registry,           \* AgentRegistry.agents of the registry last constructed
    backend,            \* which DatabaseChatAgent implementation runs: "driver" or "mock"
    oracle_available,   \* ORACLE_AVAILABLE
    connection_status,  \* DatabaseChatAgent.connection_status
    oracle_connector,   \* DatabaseChatAgent.oracle_connector
    query_history,      \* DatabaseChatAgent.query_history
    open_handles,       \* driver side: connections opened and not yet closed
    handles_made,       \* driver side: number of connections opened so far
    clock,              \* what datetime.now() returns
    last,               \* what the last user action did (observation)
    nl_input,           \* translator harness: the user's text
    nl_catalog,         \* translator harness: the table list of the session
    nl_result,          \* translator harness: what both translators returned
    add_calls           \* add_to_conversation calls in progress, statement by statement

(***************************************************************************)
(* Python values                                                           *)
(***************************************************************************)
\* Python's None.  Every text is a sequence of one-character strings, so this
\* one-element sequence differs from every text (and from the empty text).
None == <<"None">>

(***************************************************************************)
(* Text: str.lower, str.upper, the `in` substring test, str.strip          *)
(***************************************************************************)
UpperChars == <<"A","B","C","D","E","F","G","H","I","J","K","L","M",
                "N","O","P","Q","R","S","T","U","V","W","X","Y","Z">>
LowerChars == <<"a","b","c","d","e","f","g","h","i","j","k","l","m",
                "n","o","p","q","r","s","t","u","v","w","x","y","z">>
Digits == {"0","1","2","3","4","5","6","7","8","9"}
Whitespace == {" ", "\t", "\n", "\r"}

IndexIn(chars, c) == CHOOSE i \in 1..Len(chars) : chars[i] = c
IsIn(chars, c) == \E i \in 1..Len(chars) : chars[i] = c

\* str.lower()
lower(s) ==
    [i \in 1..Len(s) |->
        IF IsIn(UpperChars, s[i]) THEN LowerChars[IndexIn(UpperChars, s[i])] ELSE s[i]]

\* str.upper()
upper(s) ==
    [i \in 1..Len(s) |->
        IF IsIn(LowerChars, s[i]) THEN UpperChars[IndexIn(LowerChars, s[i])] ELSE s[i]]

\* `sub in s` on strings
Contains(s, sub) ==
    \E i \in 0..(Len(s) - Len(sub)) : SubSeq(s, i + 1, i + Len(sub)) = sub

\* any(word in s for word in words)
AnyIn(words, s) == \E i \in 1..Len(words) : Contains(s, words[i])

\* str.strip()
RECURSIVE lstrip(_)
lstrip(s) == IF s # <<>> /\ Head(s) \in Whitespace THEN lstrip(Tail(s)) ELSE s
RECURSIVE rstrip(_)
rstrip(s) ==
    IF s # <<>> /\ s[Len(s)] \in Whitespace THEN rstrip(SubSeq(s, 1, Len(s) - 1)) ELSE s
strip(s) == rstrip(lstrip(s))

\* re.findall(r'\d+', s): the maximal runs of digits, left to right
RECURSIVE DigitRunEnd(_, _)
DigitRunEnd(s, i) ==
    IF i + 1 <= Len(s) /\ s[i + 1] \in Digits THEN DigitRunEnd(s, i + 1) ELSE i
RECURSIVE findall_digits(_, _)
findall_digits(s, i) ==
    IF i > Len(s) THEN <<>>
    ELSE IF s[i] \in Digits
         THEN <<SubSeq(s, i, DigitRunEnd(s, i))>> \o findall_digits(s, DigitRunEnd(s, i) + 1)
         ELSE findall_digits(s, i + 1)

(***************************************************************************)
(* The translators' literals                                               *)
(***************************************************************************)
W_show == <<"s","h","o","w">>
W_list == <<"l","i","s","t">>
W_display == <<"d","i","s","p","l","a","y">>
W_all == <<"a","l","l">>
W_table == <<"t","a","b","l","e">>
W_tables == <<"t","a","b","l","e","s">>
W_count == <<"c","o","u","n","t">>
W_how_many == <<"h","o","w"," ","m","a","n","y">>
W_total == <<"t","o","t","a","l">>
W_first == <<"f","i","r","s","t">>
W_top == <<"t","o","p">>
W_10 == <<"1","0">>
W_sample == <<"s","a","m","p","l","e">>
W_describe == <<"d","e","s","c","r","i","b","e">>
W_structure == <<"s","t","r","u","c","t","u","r","e">>
W_from == <<"f","r","o","m">>
W_limit == <<"l","i","m","i","t">>

SQL_TABLES == <<"S","E","L","E","C","T"," ","t","a","b","l","e","_","n","a","m","e"," ",
                "F","R","O","M"," ","u","s","e","r","_","t","a","b","l","e","s"," ",
                "O","R","D","E","R"," ","B","Y"," ","t","a","b","l","e","_","n","a","m","e">>
SQL_COUNT_AS == <<"S","E","L","E","C","T"," ","C","O","U","N","T","(","*",")"," ",
                  "a","s"," ","t","o","t","a","l","_","r","o","w","s"," ","F","R","O","M"," ">>
SQL_COUNT == <<"S","E","L","E","C","T"," ","C","O","U","N","T","(","*",")"," ","F","R","O","M"," ">>
SQL_SELECT == <<"S","E","L","E","C","T"," ","*"," ","F","R","O","M"," ">>
SQL_ROWNUM == <<" ","W","H","E","R","E"," ","R","O","W","N","U","M"," ","<","="," ">>
SQL_DESC_1 == <<"S","E","L","E","C","T"," ","c","o","l","u","m","n","_","n","a","m","e",","," ",
                "d","a","t","a","_","t","y","p","e",","," ","n","u","l","l","a","b","l","e"," ",
                "F","R","O","M"," ","u","s","e","r","_","t","a","b","_","c","o","l","u","m","n","s"," ",
                "W","H","E","R","E"," ","t","a","b","l","e","_","n","a","m","e"," ","="," ","'">>
SQL_DESC_2 == <<"'"," ","O","R","D","E","R"," ","B","Y"," ","c","o","l","u","m","n","_","i","d">>

T_CUSTOMERS == <<"C","U","S","T","O","M","E","R","S">>
T_ORDERS == <<"O","R","D","E","R","S">>
T_ORDER_ITEMS == <<"O","R","D","E","R","_","I","T","E","M","S">>
T_PRODUCTS == <<"P","R","O","D","U","C","T","S">>
T_EMPLOYEES == <<"E","M","P","L","O","Y","E","E","S">>
T_DEPARTMENTS == <<"D","E","P","A","R","T","M","E","N","T","S">>
T_SALES == <<"S","A","L","E","S">>
T_INVENTORY == <<"I","N","V","E","N","T","O","R","Y">>
T_ACCOUNTS == <<"A","C","C","O","U","N","T","S">>
T_TOTALS == <<"T","O","T","A","L","S">>

(***************************************************************************)
(* Driver-backed translator: DatabaseChatAgent.natural_language_to_sql     *)
(* (database_chat_agent.py 472-511).  `tables` is what                     *)
(* oracle_connector.get_table_list() returned.                             *)
(***************************************************************************)
\* Mutant of mentioned_table: the loop without its break keeps the last match.
RECURSIVE mentioned_table_last(_, _)
mentioned_table_last(tables, user_input_lower) ==
    IF tables = <<>> THEN None
    ELSE IF Contains(user_input_lower, lower(tables[Len(tables)])) THEN tables[Len(tables)]
    ELSE mentioned_table_last(SubSeq(tables, 1, Len(tables) - 1), user_input_lower)

\* the for loop with break of lines 487-491
RECURSIVE mentioned_table(_, _)
mentioned_table(tables, user_input_lower) ==
    IF tables = <<>> THEN None
    ELSE IF Contains(user_input_lower, lower(Head(tables))) THEN Head(tables)
    ELSE mentioned_table(Tail(tables), user_input_lower)

\* rule 1, line 483
Rule1(user_input_lower) ==
    AnyIn(<<W_show, W_list, W_display>>, user_input_lower) /\ Contains(user_input_lower, W_table)

\* Mutant of GenericFallback: 'tables' alone is enough.
GenericFallback_tables_alone(user_input_lower) == Contains(user_input_lower, W_tables)

\* the generic fallback, line 507
GenericFallback(user_input_lower) ==
    Contains(user_input_lower, W_tables) /\ AnyIn(<<W_show, W_list>>, user_input_lower)

\* Mutant of TableRules: the row limit taken from the first number of the input.
TableRules_limit_from_input(t, user_input_lower) ==
    IF t = None \/ t = <<>> THEN None
    ELSE IF AnyIn(<<W_count, W_how_many, W_total>>, user_input_lower)
         THEN SQL_COUNT_AS \o t
    ELSE IF AnyIn(<<W_show, W_display, W_list, W_all>>, user_input_lower)
         THEN IF AnyIn(<<W_first, W_top, W_10, W_sample>>, user_input_lower)
              THEN SQL_SELECT \o t \o SQL_ROWNUM
                   \o (IF findall_digits(user_input_lower, 1) # <<>>
                       THEN findall_digits(user_input_lower, 1)[1] ELSE W_10)
              ELSE SQL_SELECT \o t
    ELSE IF Contains(user_input_lower, W_describe) \/ Contains(user_input_lower, W_structure)
         THEN SQL_DESC_1 \o t \o SQL_DESC_2
    ELSE None

\* Mutant of TableRules: the limit test inverted (row limit when no limit word).
TableRules_limit_inverted(t, user_input_lower) ==
    IF t = None \/ t = <<>> THEN None
    ELSE IF AnyIn(<<W_count, W_how_many, W_total>>, user_input_lower)
         THEN SQL_COUNT_AS \o t
    ELSE IF AnyIn(<<W_show, W_display, W_list, W_all>>, user_input_lower)
         THEN IF ~AnyIn(<<W_first, W_top, W_10, W_sample>>, user_input_lower)
              THEN SQL_SELECT \o t \o SQL_ROWNUM \o W_10
              ELSE SQL_SELECT \o t
    ELSE IF Contains(user_input_lower, W_describe) \/ Contains(user_input_lower, W_structure)
         THEN SQL_DESC_1 \o t \o SQL_DESC_2
    ELSE None

\* Mutant of TableRules: the show branch tested before the count branch.
TableRules_show_first(t, user_input_lower) ==
    IF t = None \/ t = <<>> THEN None
    ELSE IF AnyIn(<<W_show, W_display, W_list, W_all>>, user_input_lower)
         THEN IF AnyIn(<<W_first, W_top, W_10, W_sample>>, user_input_lower)
              THEN SQL_SELECT \o t \o SQL_ROWNUM \o W_10
              ELSE SQL_SELECT \o t
    ELSE IF AnyIn(<<W_count, W_how_many, W_total>>, user_input_lower)
         THEN SQL_COUNT_AS \o t
    ELSE IF Contains(user_input_lower, W_describe) \/ Contains(user_input_lower, W_structure)
         THEN SQL_DESC_1 \o t \o SQL_DESC_2
    ELSE None

\* lines 493-504: the templates of a mentioned table; None when no keyword matches.
\* A table whose name is the empty string is falsy in `if mentioned_table:`.
TableRules(t, user_input_lower) ==
    IF t = None \/ t = <<>> THEN None
    ELSE IF AnyIn(<<W_count, W_how_many, W_total>>, user_input_lower)
         THEN SQL_COUNT_AS \o t
    ELSE IF AnyIn(<<W_show, W_display, W_list, W_all>>, user_input_lower)
         THEN IF AnyIn(<<W_first, W_top, W_10, W_sample>>, user_input_lower)
              THEN SQL_SELECT \o t \o SQL_ROWNUM \o W_10
              ELSE SQL_SELECT \o t
    ELSE IF Contains(user_input_lower, W_describe) \/ Contains(user_input_lower, W_structure)
         THEN SQL_DESC_1 \o t \o SQL_DESC_2
    ELSE None

\* Mutant of natural_language_to_sql: the table rules applied before rule 1.
natural_language_to_sql_tables_first(user_input, tables) ==
    LET user_input_lower == lower(user_input)
        by_table == TableRules(mentioned_table(tables, user_input_lower), user_input_lower)
    IN  IF by_table # None THEN by_table
        ELSE IF Rule1(user_input_lower) THEN SQL_TABLES
        ELSE IF GenericFallback(user_input_lower) THEN SQL_TABLES
        ELSE None

natural_language_to_sql(user_input, tables) ==
    LET user_input_lower == lower(user_input)
        by_table == TableRules(mentioned_table(tables, user_input_lower), user_input_lower)
    IN  IF Rule1(user_input_lower) THEN SQL_TABLES
        ELSE IF by_table # None THEN by_table
        ELSE IF GenericFallback(user_input_lower) THEN SQL_TABLES
        ELSE None

(***************************************************************************)
(* Mock translator: extract_table_name (953-963) and                       *)
(* natural_language_to_sql (965-989)                                       *)
(***************************************************************************)
\* get_table_list (mock), line 879
MockTables ==
    <<T_CUSTOMERS, T_ORDERS, T_PRODUCTS, T_EMPLOYEES, T_DEPARTMENTS, T_SALES, T_INVENTORY>>

RECURSIVE first_table_in(_, _)
first_table_in(tables, user_input_upper) ==
    IF tables = <<>> THEN None
    ELSE IF Contains(user_input_upper, Head(tables)) THEN Head(tables)
    ELSE first_table_in(Tail(tables), user_input_upper)

extract_table_name(user_input, tables) == first_table_in(tables, upper(user_input))

\* `if table_name:` is false for None and for the empty string
Truthy(v) == v # None /\ v # <<>>

mock_natural_language_to_sql(user_input, tables) ==
    LET user_input_lower == lower(user_input)
        table_name == extract_table_name(user_input, tables)
        numbers == findall_digits(user_input, 1)
        limit == IF numbers # <<>> THEN numbers[1] ELSE W_10
    IN  IF Contains(user_input_lower, W_all) /\ Contains(user_input_lower, W_from)
        THEN IF Truthy(table_name) THEN SQL_SELECT \o table_name ELSE None
        ELSE IF Contains(user_input_lower, W_count)
        THEN IF Truthy(table_name) THEN SQL_COUNT \o table_name ELSE None
        ELSE IF AnyIn(<<W_top, W_first, W_limit>>, user_input_lower)
        THEN IF Truthy(table_name) THEN SQL_SELECT \o table_name \o SQL_ROWNUM \o limit ELSE None
        ELSE None

(***************************************************************************)
(* Bounds of the model                                                     *)
(***************************************************************************)
MaxConv == 4        \* no turn starts on a conversation that would exceed this length
MaxHistory == 2     \* no query is logged beyond this length of the query history
MaxHandles == 2     \* connections the driver opens in one run of the model
MaxClock == 1       \* the clock stops advancing here

(***************************************************************************)
(* st.session_state and Python dicts                                       *)
(*                                                                         *)
(* A key is <<prefix, middle, suffix>>, its text being the concatenation;  *)
(* the prefix runs up to and including the first underscore, so that       *)
(* key.startswith('agent_') is a test of the prefix.                       *)
(***************************************************************************)
EmptyDict == <<>>
DictGet(d, k, default) == IF k \in DOMAIN d THEN d[k] ELSE default
DictUpdate(d, e) == [k \in DOMAIN d \cup DOMAIN e |-> IF k \in DOMAIN e THEN e[k] ELSE d[k]]
DictPut(d, k, v) == [x \in DOMAIN d \cup {k} |-> IF x = k THEN v ELSE d[x]]
DictDel(d, ks) == [x \in DOMAIN d \ ks |-> d[x]]
startswith(key, prefix) == key[1] = prefix

\* AGENT_CONFIGS, in insertion order (agent_config.py 55)
AgentIds == <<"brd_generator", "database_chat">>
BRD == "brd_generator"
DBC == "database_chat"
\* the value of selected_agent / current_agent when it is None
NoAgent == "None"

\* one conversation key for every agent
conversation_key_shared(id) == <<"agent_", "shared", "_conversation">>

\* BaseAgent.__init__, lines 104-105
session_key(id) == <<"agent_", id, "_session">>
conversation_key(id) == <<"agent_", id, "_conversation">>

K_agent_manager == <<"agent_", "manager", "">>
K_agent_configs == <<"agent_", "configs", "">>
K_agent_history == <<"agent_", "history", "">>
K_conversation_history == <<"conversation_", "history", "">>
K_current_agent == <<"current_", "agent", "">>
K_selected_agent == <<"selected_", "agent", "">>
K_user_profile == <<"user_", "profile", "">>
K_active_conversations == <<"active_", "conversations", "">>
K_shared_context == <<"shared_", "context", "">>
K_framework_initialized == <<"framework_", "initialized", "">>

\* init_session_state, agent_config.py 288-303
init_session_state(ss) ==
    LET defaults ==
            (K_current_agent :> NoAgent) @@ (K_agent_history :> EmptyDict) @@
            (K_conversation_history :> EmptyDict) @@ (K_user_profile :> "User(user1)") @@
            (K_agent_configs :> "AGENT_CONFIGS") @@ (K_active_conversations :> EmptyDict) @@
            (K_shared_context :> EmptyDict) @@ (K_framework_initialized :> TRUE)
    IN  [k \in DOMAIN ss \cup DOMAIN defaults |-> IF k \in DOMAIN ss THEN ss[k] ELSE defaults[k]]

\* initialize_session writing the fresh session and conversation whatever is stored
initialize_session_overwriting(ss, id, now) ==
    DictPut(DictPut(ss, session_key(id),
                    [initialized |-> TRUE, last_activity |-> now,
                     context |-> EmptyDict, history |-> <<>>]),
            conversation_key(id), <<>>)

\* BaseAgent.initialize_session, lines 109-120
initialize_session(ss, id, now) ==
    LET ss1 == IF session_key(id) \notin DOMAIN ss
               THEN DictPut(ss, session_key(id),
                            [initialized |-> TRUE, last_activity |-> now,
                             context |-> EmptyDict, history |-> <<>>])
               ELSE ss
    IN  IF conversation_key(id) \notin DOMAIN ss1
        THEN DictPut(ss1, conversation_key(id), <<>>)
        ELSE ss1

\* BaseAgent.get_session_data, lines 122-124
get_session_data(ss, id) == DictGet(ss, session_key(id), EmptyDict)

\* update_session_data storing the given data in place of the session
update_session_data_replacing(ss, id, data, now) ==
    DictPut(ss, session_key(id), DictPut(data, "last_activity", now))

\* BaseAgent.update_session_data, lines 126-131
update_session_data(ss, id, data, now) ==
    LET session_data == DictUpdate(get_session_data(ss, id), data)
    IN  DictPut(ss, session_key(id), DictPut(session_data, "last_activity", now))

\* BaseAgent.get_conversation_history, lines 133-135
get_conversation_history(ss, id) == DictGet(ss, conversation_key(id), <<>>)

\* datetime.isoformat() of a reading of the clock.  The clock counts half seconds
\* of one minute; the text has no fraction when the microseconds are zero.
isoformat(now) ==
    <<"2025-01-01T00:00:0">>
    \o <<IF now \div 2 = 0 THEN "0" ELSE IF now \div 2 = 1 THEN "1" ELSE "2">>
    \o (IF now % 2 = 1 THEN <<".", "5", "0", "0", "0", "0", "0">> ELSE <<>>)

\* add_to_conversation putting the message in front of the list
add_to_conversation_in_front(ss, id, role, content, now) ==
    LET message == [role |-> role, content |-> content, timestamp |-> isoformat(now),
                    metadata |-> EmptyDict]
    IN  DictPut(ss, conversation_key(id), <<message>> \o DictGet(ss, conversation_key(id), <<>>))

\* BaseAgent.add_to_conversation, lines 137-148
add_to_conversation(ss, id, role, content, now) ==
    LET message == [role |-> role, content |-> content, timestamp |-> isoformat(now),
                    metadata |-> EmptyDict]
    IN  DictPut(ss, conversation_key(id), Append(get_conversation_history(ss, id), message))

\* the last user action, as an observer sees it
Observation(op, agent, input, response, outcome, attempts, calls) ==
    [op |-> op, agent |-> agent, input |-> input, response |-> response,
     outcome |-> outcome, attempts |-> attempts, calls |-> calls,
     translated |-> FALSE, sql |-> None]
\* the same, of a turn that asked the translator and got sql from it
WithTranslation(observation, r) ==
    [observation EXCEPT !.translated = r.translated, !.sql = r.sql]

\* the agent the user works with: main() runs the selected agent of the manager
Selected(id) ==
    /\ K_selected_agent \in DOMAIN session_state
    /\ session_state[K_selected_agent] = id
    /\ id \in DOMAIN agents

(***************************************************************************)
(* OracleConnector (database_chat_agent.py 21-157) and the driver          *)
(***************************************************************************)
\* Python's None where an object is expected
PyNone == [class |-> "NoneType"]
\* self.connection = None, line 30
NoConnection == 0
OracleConnector(conn) == [class |-> "OracleConnector", connection |-> conn]
\* a pandas DataFrame, as far as the agent looks at it: its number of rows
DataFrame(n) == [class |-> "DataFrame", rows |-> n]

\* the tables of the schema the driver is connected to, ORDER BY table_name
DbTables == <<T_CUSTOMERS, T_ORDERS>>
\* what the driver can answer to one cursor.execute of the agent
ExecOutcomes ==
    { [kind |-> "rows", n |-> 0], [kind |-> "rows", n |-> 2],
      [kind |-> "error", msg |-> <<"ORA-00942: table or view does not exist">>] }
\* what the driver can answer to the query of get_table_list
TableListOutcomes ==
    { [kind |-> "rows", n |-> 2],
      [kind |-> "error", msg |-> <<"ORA-00942: table or view does not exist">>] }
\* what the driver can answer to cx_Oracle.connect
ConnectOutcomes == { [kind |-> "ok"], [kind |-> "error", msg |-> <<"ORA-01017: invalid username/password">>] }
\* what connection.close() can do
CloseOutcomes == { [kind |-> "ok"], [kind |-> "error", msg |-> <<"DPI-1010: not connected">>] }

\* str(n) for a natural number
DigitChar(d) == <<"0","1","2","3","4","5","6","7","8","9">>[d + 1]
RECURSIVE str_int(_)
str_int(n) == IF n < 10 THEN <<DigitChar(n)>> ELSE str_int(n \div 10) \o <<DigitChar(n % 10)>>
\* f"{n:,}": thousands separated by commas
RECURSIVE format_thousands(_)
format_thousands(n) ==
    IF n < 1000 THEN str_int(n)
    ELSE format_thousands(n \div 1000)
         \o <<",", DigitChar((n % 1000) \div 100), DigitChar((n % 100) \div 10), DigitChar(n % 10)>>

\* query.strip().upper().startswith('SELECT'), line 80
is_select(query) ==
    LET q == upper(strip(query)) IN
    Len(q) >= 6 /\ SubSeq(q, 1, 6) = <<"S","E","L","E","C","T">>

\* execute_query going to the driver without looking at the connection
execute_query_unguarded(connector, query, out) ==
    IF out.kind = "error"
    THEN [success |-> FALSE, results |-> PyNone,
          error |-> <<"Query execution error: ">> \o out.msg,
          calls |-> <<"execute_query: cursor.execute">>]
    ELSE [success |-> TRUE, results |-> DataFrame(out.n), error |-> None,
          calls |-> <<"execute_query: cursor.execute">>]

\* OracleConnector.execute_query, lines 70-94
execute_query(connector, query, out) ==
    IF connector.connection = NoConnection
    THEN [success |-> FALSE, results |-> PyNone, error |-> <<"No active connection">>,
          calls |-> <<>>]
    ELSE IF out.kind = "error"
    THEN [success |-> FALSE, results |-> PyNone,
          error |-> <<"Query execution error: ">> \o out.msg,
          calls |-> <<"execute_query: cursor.execute">>]
    ELSE IF is_select(query)
    THEN [success |-> TRUE, results |-> DataFrame(out.n), error |-> None,
          calls |-> <<"execute_query: cursor.execute">>]
    ELSE [success |-> TRUE, results |-> PyNone, error |-> <<"Query executed successfully">>,
          calls |-> <<"execute_query: cursor.execute", "execute_query: commit">>]

\* OracleConnector.get_table_list, lines 96-113
get_table_list(connector, out) ==
    IF connector.connection = NoConnection THEN [tables |-> <<>>, calls |-> <<>>]
    ELSE [tables |-> IF out.kind = "error" THEN <<>> ELSE DbTables,
          calls |-> <<"get_table_list: cursor.execute">>]

\* OracleConnector.get_table_row_count, lines 138-151
get_table_row_count(connector, out) ==
    IF connector.connection = NoConnection THEN [count |-> 0, calls |-> <<>>]
    ELSE [count |-> IF out.kind = "error" THEN 0 ELSE out.n,
          calls |-> <<"get_table_row_count: cursor.execute">>]

(***************************************************************************)
(* DatabaseChatAgent, driver-backed (database_chat_agent.py 159-543)       *)
(***************************************************************************)
MSG_NEED_CONNECTION_SETUP ==
    <<"I need to connect to a database first. Please configure the connection in the Connection Setup tab.">>
MSG_CLARIFY_DRIVER ==
    <<"I couldn't convert that to a SQL query. Could you be more specific? For example: 'Show me all customers' or 'Count rows in the orders table'.">>

\* DatabaseChatAgent.natural_language_to_sql with its guard (476-480): None without a
\* connector, else the rules applied to the connector's table list
agent_natural_language_to_sql(connector, user_input, tl_out) ==
    IF connector = PyNone THEN [sql |-> None, calls |-> <<>>]
    ELSE LET tl == get_table_list(connector, tl_out)
         IN  [sql |-> natural_language_to_sql(user_input, tl.tables), calls |-> tl.calls]

\* DatabaseChatAgent.process_input, lines 432-470.
\* Gives the response, the query history afterwards and the driver calls made.
process_input(status, connector, history, user_input, now, tl_out, ex_out) ==
    IF status # "connected"
    THEN [response |-> MSG_NEED_CONNECTION_SETUP, history |-> history, calls |-> <<>>,
          sql |-> None, translated |-> FALSE]
    ELSE
    LET tr == agent_natural_language_to_sql(connector, user_input, tl_out)
        sql_query == tr.sql
    IN  IF ~Truthy(sql_query)
        THEN [response |-> MSG_CLARIFY_DRIVER, history |-> history, calls |-> tr.calls,
              sql |-> sql_query, translated |-> TRUE]
        ELSE
        LET r == execute_query(connector, sql_query, ex_out)
            query_info == [question |-> user_input, sql |-> sql_query, timestamp |-> now,
                           success |-> r.success, error |-> r.error,
                           row_count |-> IF r.results # PyNone THEN r.results.rows ELSE 0]
            response ==
                IF r.success
                THEN IF r.results # PyNone /\ r.results.rows # 0
                     THEN <<"**Query executed successfully:**\n<sql>\n">> \o sql_query
                          \o <<"\n</sql>\n\n", "**Results (">> \o str_int(r.results.rows)
                          \o <<" rows):**">>
                     ELSE <<"**Query executed successfully:**\n<sql>\n">> \o sql_query
                          \o <<"\n</sql>\n\nQuery completed (no data returned).">>
                ELSE <<"**Query failed:**\n<sql>\n">> \o sql_query
                     \o <<"\n</sql>\n\n**Error:** ">> \o r.error
        IN  [response |-> response, history |-> Append(history, query_info),
             calls |-> tr.calls \o r.calls, sql |-> sql_query, translated |-> TRUE]

\* DatabaseChatAgent.execute_quick_query, lines 513-542
QuickTypes == {"show_tables", "table_sizes", "db_info"}
execute_quick_query(connector, query_type, tl_out, ex_out) ==
    IF connector = PyNone
    THEN [response |-> <<"No database connection available.">>, calls |-> <<>>]
    ELSE IF query_type = "table_sizes"
    THEN LET tl == get_table_list(connector, tl_out)
             rc == get_table_row_count(connector, ex_out)
             line(t) == <<"- ">> \o t \o <<": ">> \o str_int(rc.count) \o <<" rows\n">>
         IN  [response |-> <<"**Table row counts:**\n">>
                           \o (IF Len(tl.tables) >= 1 THEN line(tl.tables[1]) ELSE <<>>)
                           \o (IF Len(tl.tables) >= 2 THEN line(tl.tables[2]) ELSE <<>>),
              calls |-> tl.calls \o [i \in 1..Len(tl.tables) |-> rc.calls[1]]]
    ELSE LET r == execute_query(connector,
                                IF query_type = "show_tables" THEN SQL_TABLES
                                ELSE <<"SELECT * FROM v$version WHERE ROWNUM = 1">>,
                                ex_out)
         IN  [response |->
                 IF r.success /\ r.results # PyNone
                 THEN IF query_type = "show_tables"
                      THEN <<"**Available tables:**\n", "<table list>">>
                      ELSE <<"**Database Information:**\nVersion: ",
                             IF r.results.rows # 0 THEN "<version>" ELSE "Unknown">>
                 ELSE <<"Query execution failed.">>,
              calls |-> r.calls]

(***************************************************************************)
(* DatabaseChatAgent, mock (database_chat_agent.py 544-1030)               *)
(***************************************************************************)
MSG_NEED_CONNECTION ==
    <<"I need to connect to a database first. Please configure the connection in the Connection tab.">>
MSG_CLARIFY_MOCK == <<"I couldn't convert that to a SQL query. Could you be more specific?">>

\* str.split(): the words between runs of whitespace
RECURSIVE split(_)
split(s) ==
    LET t == lstrip(s)
        WordEnd[i \in 0..Len(t)] ==
            IF i < Len(t) /\ t[i + 1] \notin Whitespace THEN WordEnd[i + 1] ELSE i
    IN  IF t = <<>> THEN <<>>
        ELSE <<SubSeq(t, 1, WordEnd[0])>> \o split(SubSeq(t, WordEnd[0] + 1, Len(t)))

\* get_sample_data (906-931): the number of rows of the frame it returns
get_sample_data(table_name, limit) ==
    DataFrame(IF table_name \in {T_CUSTOMERS, T_ORDERS} /\ limit > 5 THEN 5 ELSE limit)

\* get_table_row_count (mock), lines 942-951
mock_get_table_row_count(table_name) ==
    IF table_name = T_CUSTOMERS THEN 1247
    ELSE IF table_name = T_ORDERS THEN 5638
    ELSE IF table_name = T_PRODUCTS THEN 892
    ELSE IF table_name = T_EMPLOYEES THEN 156
    ELSE IF table_name = T_DEPARTMENTS THEN 12
    ELSE 100

\* execute_sql_query (mock), lines 991-1011
execute_sql_query(sql_query) ==
    LET u == upper(sql_query)
        words == split(u)
        FROM == <<"F","R","O","M">>
        has_from == \E i \in 1..Len(words) : words[i] = FROM
        from_index == CHOOSE i \in 1..Len(words) :
                          words[i] = FROM /\ \A j \in 1..(i - 1) : words[j] # FROM
    IN  IF Contains(u, <<"C","O","U","N","T","(","*",")">>) THEN DataFrame(1)
        ELSE IF /\ Contains(u, <<"S","E","L","E","C","T"," ","*">>)
                /\ has_from /\ from_index + 1 <= Len(words)
             THEN get_sample_data(words[from_index + 1], 10)
        ELSE DataFrame(1)

\* handle_display_requests, lines 786-804
handle_display_requests(user_input) ==
    LET table_name == extract_table_name(user_input, MockTables) IN
    IF Contains(lower(user_input), W_tables) THEN <<"Available tables:\n", "<table list>">>
    ELSE IF Truthy(table_name)
         THEN <<"Here are the first 10 rows from ">> \o table_name \o <<":\n\n", "<sample data>">>
    ELSE <<"I need more specific information. Which table would you like me to show?">>

\* handle_count_requests, lines 806-816
handle_count_requests(user_input) ==
    LET table_name == extract_table_name(user_input, MockTables) IN
    IF Truthy(table_name)
    THEN <<"Table '">> \o table_name \o <<"' contains ">>
         \o format_thousands(mock_get_table_row_count(table_name)) \o <<" rows.">>
    ELSE <<"Please specify which table you'd like me to count.">>

\* handle_general_query logging the question it could not translate
handle_general_query_logging(history, user_input, now) ==
    LET sql_query == mock_natural_language_to_sql(user_input, MockTables)
    IN  [response |-> MSG_CLARIFY_MOCK,
         history |-> Append(history, [query |-> user_input, sql |-> sql_query,
                                      timestamp |-> now, results |-> DataFrame(0),
                                      status |-> "failed"]),
         calls |-> <<>>, sql |-> sql_query, translated |-> TRUE]

\* handle_general_query, lines 831-853
handle_general_query(history, user_input, now) ==
    LET sql_query == mock_natural_language_to_sql(user_input, MockTables)
        results == execute_sql_query(sql_query)
    IN  IF Truthy(sql_query)
        THEN [response |-> <<"Query executed successfully. Found ">> \o str_int(results.rows)
                           \o <<" rows.\n\nSQL: ">> \o sql_query \o <<"\n\nResults:\n", "<results>">>,
              history |-> Append(history, [query |-> user_input, sql |-> sql_query,
                                           timestamp |-> now, results |-> results,
                                           status |-> "success"]),
              calls |-> <<>>, sql |-> sql_query, translated |-> TRUE]
        ELSE [response |-> MSG_CLARIFY_MOCK, history |-> history, calls |-> <<>>,
              sql |-> sql_query, translated |-> TRUE]

\* DatabaseChatAgent.process_input (mock), lines 765-784
mock_process_input(status, history, user_input, now) ==
    LET user_input_lower == lower(user_input)
        search_words == <<<<"f","i","n","d">>, <<"s","e","a","r","c","h">>,
                          <<"w","h","e","r","e">>, <<"f","i","l","t","e","r">>>>
        join_words == <<<<"j","o","i","n">>, <<"c","o","m","b","i","n","e">>,
                        <<"m","e","r","g","e">>>>
        aggregate_words == <<<<"a","v","e","r","a","g","e">>, <<"s","u","m">>, <<"m","a","x">>,
                             <<"m","i","n">>, <<"a","v","g">>>>
        fixed(response) == [response |-> response, history |-> history, calls |-> <<>>,
                            sql |-> None, translated |-> FALSE]
    IN  IF status # "connected" THEN fixed(MSG_NEED_CONNECTION)
        ELSE IF AnyIn(<<W_show, W_list, W_display>>, user_input_lower)
             THEN fixed(handle_display_requests(user_input))
        ELSE IF AnyIn(<<W_count, W_how_many, W_total>>, user_input_lower)
             THEN fixed(handle_count_requests(user_input))
        ELSE IF AnyIn(search_words, user_input_lower)
             THEN fixed(<<"I can help with search queries. Please provide more details about what you're looking for and in which table.">>)
        ELSE IF AnyIn(join_words, user_input_lower)
             THEN fixed(<<"I can help create JOIN queries. Please specify which tables you'd like to combine and the relationship between them.">>)
        ELSE IF AnyIn(aggregate_words, user_input_lower)
             THEN fixed(<<"I can help with aggregation queries (SUM, COUNT, AVG, MAX, MIN). Please specify the column and table you'd like to analyze.">>)
        ELSE handle_general_query(history, user_input, now)

\* DatabaseChatAgent.execute_quick_query (mock), lines 1013-1030
MockQuickTypes == {"show_tables", "table_counts", "recent_data"}
mock_execute_quick_query(query_type) ==
    IF query_type = "show_tables"
    THEN <<"Database contains ">> \o str_int(Len(MockTables)) \o <<" tables:\n", "<table list>">>
    ELSE IF query_type = "table_counts"
    THEN <<"Table row counts:\n">>
         \o <<"- ">> \o MockTables[1] \o <<": ">>
         \o format_thousands(mock_get_table_row_count(MockTables[1])) \o <<" rows\n", "<4 more>">>
    ELSE IF query_type = "recent_data"
    THEN <<"Most recent data updates: ...">>
    ELSE <<"Query type not recognized.">>

(***************************************************************************)
(* BRDGeneratorAgent (brd_generator_agent.py)                              *)
(***************************************************************************)

\* bool(d) and len(d) for a dict, sum(d.values()) for a dict of numbers
TruthyDict(d) == DOMAIN d # {}
DictLen(d) == Cardinality(DOMAIN d)
RECURSIVE SumOver(_, _)
SumOver(d, ks) ==
    IF ks = {} THEN 0
    ELSE LET k == CHOOSE x \in ks : TRUE IN d[k] + SumOver(d, ks \ {k})
SumValues(d) == SumOver(d, DOMAIN d)

\* f"{a / b:.1f}" for naturals a, b with b > 0 (the quotient cut to one decimal)
format_1f(a, b) == str_int(a \div b) \o <<".", DigitChar(((a * 10) \div b) % 10)>>

\* what process_document (136-138) can give: the analysed document, or an exception
DocumentOutcomes ==
    { [kind |-> "ok", document_text |-> <<"<document text>">>,
       document_analysis |-> [document_type |-> "Regulatory"]],
      [kind |-> "error", msg |-> <<"cannot read the file">>] }
\* what generate_enhanced_brd (200-205) can give: a result, or an exception
SomeScores == [executive_summary |-> 85, requirements |-> 90]
GenerateOutcomes ==
    { [kind |-> "ok", brd_content |-> [executive_summary |-> "<text>"],
       quality_scores |-> SomeScores],
      [kind |-> "ok", brd_content |-> [executive_summary |-> "<text>"],
       quality_scores |-> EmptyDict],
      [kind |-> "error", msg |-> <<"generation failed">>] }

\* a return value, or the exception a call raised
Returned(v) == [raised |-> FALSE, value |-> v]
Raised(description) == [raised |-> TRUE, value |-> description]

\* handle_document_questions, lines 402-426
handle_document_questions(session_data) ==
    IF TruthyDict(DictGet(session_data, "document_analysis", EmptyDict))
    THEN Returned(<<"I've analyzed **", "<doc_name>",
                    "** and found: ... The document is ready for BRD generation.">>)
    ELSE Returned(<<"To analyze a document: ...">>)

\* handle_generation_questions, lines 428-460; the division of line 434 raises
\* ZeroDivisionError when quality_scores is stored and empty
handle_generation_questions(session_data) ==
    LET scores == DictGet(session_data, "quality_scores", EmptyDict)
        divisor == IF "quality_scores" \in DOMAIN session_data THEN DictLen(scores) ELSE 1
    IN  IF TruthyDict(DictGet(session_data, "brd_content", EmptyDict))
        THEN IF divisor = 0 THEN Raised(<<"division by zero">>)
             ELSE Returned(<<"Your BRD has been generated successfully! Overall Quality: ">>
                           \o format_1f(SumValues(scores), divisor)
                           \o <<"% Sections: ">> \o str_int(DictLen(scores))
                           \o <<" Generated: ", "<generated_at>">>)
        ELSE IF Truthy(DictGet(session_data, "document_text", None))
        THEN Returned(<<"Your document is ready for BRD generation! ...">>)
        ELSE Returned(<<"To generate a BRD, I need a document to analyze first. ...">>)

\* handle_quality_questions, lines 533-565: the average is taken only of non-empty scores
handle_quality_questions(session_data) ==
    LET scores == DictGet(session_data, "quality_scores", EmptyDict) IN
    IF TruthyDict(scores)
    THEN Returned(<<"**BRD Quality Assessment:** Overall Score: ">>
                  \o format_1f(SumValues(scores), DictLen(scores)) \o <<"% ...">>)
    ELSE Returned(<<"Quality assessment is available after BRD generation. ...">>)

\* BRDGeneratorAgent.process_input, lines 381-400
brd_process_input(session_data, user_input) ==
    LET user_input_lower == lower(user_input)
        document_words == <<<<"u","p","l","o","a","d">>,
                            <<"d","o","c","u","m","e","n","t">>>>
        generation_words == <<<<"g","e","n","e","r","a","t","e">>,
                              <<"c","r","e","a","t","e">>, <<"b","r","d">>>>
        formula_words == <<<<"f","o","r","m","u","l","a">>,
                           <<"m","a","t","h","e","m","a","t","i","c","a","l">>>>
        export_words == <<<<"e","x","p","o","r","t">>,
                          <<"d","o","w","n","l","o","a","d">>>>
        quality_words == <<<<"q","u","a","l","i","t","y">>, <<"s","c","o","r","e">>>>
        regulatory_words == <<<<"r","e","g","u","l","a","t","o","r","y">>,
                              <<"c","o","m","p","l","i","a","n","c","e">>,
                              <<"b","a","s","e","l">>, <<"s","o","x">>, <<"g","d","p","r">>>>
    IN
    IF AnyIn(document_words, user_input_lower)
    THEN handle_document_questions(session_data)
    ELSE IF AnyIn(generation_words, user_input_lower)
    THEN handle_generation_questions(session_data)
    ELSE IF AnyIn(formula_words, user_input_lower)
    THEN Returned(<<"<handle_formula_questions>">>)
    ELSE IF AnyIn(export_words, user_input_lower)
    THEN Returned(<<"<handle_export_questions>">>)
    ELSE IF AnyIn(quality_words, user_input_lower)
    THEN handle_quality_questions(session_data)
    ELSE IF AnyIn(regulatory_words, user_input_lower)
    THEN Returned(<<"<handle_regulatory_questions>">>)
    ELSE Returned(<<"<handle_general_questions>">>)

(***************************************************************************)
(* Loading the agents: AgentManager (main.py) and AgentRegistry            *)
(***************************************************************************)
nl_vars == <<nl_input, nl_catalog, nl_result>>
db_vars == <<backend, oracle_available, connection_status, oracle_connector, query_history,
             open_handles, handles_made>>
app_vars == <<session_state, agents, registry, clock, last>>
vars == <<session_state, agents, registry, backend, oracle_available, connection_status,
          oracle_connector, query_history, open_handles, handles_made, clock, last,
          nl_input, nl_catalog, nl_result, add_calls>>

\* What can go wrong while one agent is loaded: nothing, the import of its module
\* raises ImportError, or its constructor raises (BaseAgent.__init__ raises at
\* get_logger, line 106, before initialize_session).
NoFault == [agent |-> NoAgent, kind |-> "none"]
ConstructorFaults == { [agent |-> a, kind |-> "Exception"] : a \in {BRD, DBC} }
ImportFaults == { [agent |-> a, kind |-> "ImportError"] : a \in {BRD, DBC} }

BothAgents == (BRD :> "BRDGeneratorAgent") @@ (DBC :> "DatabaseChatAgent")

\* BaseAgent.__init__ (102-107) under one try block: the agents constructed in order
\* until a constructor raises, and the session state they leave
construct_in_order(ss, fault, now) ==
    IF fault.agent = BRD THEN [agents |-> EmptyDict, ss |-> ss]
    ELSE IF fault.agent = DBC
    THEN [agents |-> (BRD :> "BRDGeneratorAgent"), ss |-> initialize_session(ss, BRD, now)]
    ELSE [agents |-> BothAgents,
          ss |-> initialize_session(initialize_session(ss, BRD, now), DBC, now)]

\* AgentManager.load_agents, main.py 200-215; fault is NoFault or a constructor fault
load_agents(ss, fault, now) == construct_in_order(ss, fault, now)

\* AgentRegistry._create_fallback_agents, agent_registry.py 38-53
create_fallback_agents(loaded, now) ==
    [agents |-> [id \in {BRD, DBC} |->
                    IF id \in DOMAIN loaded.agents THEN loaded.agents[id] ELSE "FallbackAgent"],
     ss |-> initialize_session(initialize_session(loaded.ss, BRD, now), DBC, now)]

\* AgentRegistry._load_agents, agent_registry.py 8-36: both modules are imported
\* before anything is constructed; ImportError leads to the fallback agents
registry_load_agents_v1(ss, fault, now) ==
    IF fault.kind = "ImportError"
    THEN create_fallback_agents([agents |-> EmptyDict, ss |-> ss], now)
    ELSE construct_in_order(ss, fault, now)

\* AgentRegistry._load_agents, agent_registry.py 272-293: ImportError is only logged
registry_load_agents_v2(ss, fault, now) ==
    IF fault.kind = "ImportError" THEN [agents |-> EmptyDict, ss |-> ss]
    ELSE construct_in_order(ss, fault, now)

\* main(), main.py 331-348, up to the agent's run(): the defaults, the manager if
\* there is none, and current_agent when the selected agent is found
main_prologue(ss, ag) ==
    LET ss1 == init_session_state(ss)
        sel == DictGet(ss1, K_selected_agent, NoAgent)
    IN  IF sel # NoAgent /\ sel \in DOMAIN ag THEN DictPut(ss1, K_current_agent, sel) ELSE ss1

(***************************************************************************)
(* The initial state: the first run of main() has constructed the manager  *)
(* and its two agents; nobody is selected.                                 *)
(***************************************************************************)
InitialSessionState ==
    DictPut(load_agents(init_session_state(EmptyDict), NoFault, 0).ss,
            K_agent_manager, "AgentManager")

\* Two calls of add_to_conversation running at once (agent_registry.py 137-148),
\* each at one of its statements.  heap: the list objects the calls hold, ref -> value;
\* stored: the object that st.session_state holds under the conversation key, if it
\* is one of them; local: what each call's variable `conversation` refers to.  A
\* reference is <<i>> for the i-th object of the heap, and <<>> for none.
Threads == {1, 2}
NoObject == <<>>
NoCalls ==
    [pc |-> [t \in Threads |-> "idle"], local |-> [t \in Threads |-> NoObject],
     message |-> [t \in Threads |-> PyNone], heap |-> <<>>, stored |-> NoObject,
     base |-> <<>>, base_present |-> FALSE]

AppInitWith(ss) ==
    /\ clock = 0
    /\ backend \in {"driver", "mock"}
    /\ oracle_available \in BOOLEAN
    /\ session_state = ss
    /\ agents = BothAgents
    /\ registry = [version |-> "none", fault |-> NoFault, agents |-> EmptyDict]
    /\ connection_status = "disconnected"
    /\ oracle_connector = PyNone
    /\ query_history = <<>>
    /\ open_handles = {}
    /\ handles_made = 0
    /\ last = Observation("start", NoAgent, None, None, "ok", 0, <<>>)
    /\ add_calls = NoCalls

AppInit == AppInitWith(InitialSessionState)

\* the translator harness is idle while the application runs
NlIdle ==
    /\ nl_input = <<>>
    /\ nl_catalog = <<>>
    /\ nl_result = [driver |-> None, mock |-> None]

Init == AppInit /\ NlIdle

\* the state after the user's first choice of an agent in the sidebar
InitSelected ==
    /\ \E id \in {BRD, DBC} :
          AppInitWith(main_prologue(DictPut(InitialSessionState, K_selected_agent, id),
                                    BothAgents))
    /\ NlIdle

\* time passes: datetime.now() gives a later value
Tick ==
    /\ clock < MaxClock
    /\ clock' = clock + 1
    /\ UNCHANGED <<session_state, agents, registry, last, db_vars, nl_vars, add_calls>>

\* the local clock is set back (daylight saving time ends, the system clock is
\* corrected): datetime.now(), the naive local time, gives an earlier value
ClockSetBack ==
    /\ clock > 0
    /\ clock' = clock - 1
    /\ UNCHANGED <<session_state, agents, registry, last, db_vars, nl_vars, add_calls>>

\* an agent button of the sidebar, main.py 268-275, and the run it triggers
SelectAgent(id) ==
    /\ K_agent_manager \in DOMAIN session_state
    /\ id \in DOMAIN agents
    /\ session_state' = main_prologue(DictPut(session_state, K_selected_agent, id), agents)
    /\ last' = Observation("select_agent", id, None, None, "ok", 0, <<>>)
    /\ UNCHANGED <<agents, registry, clock, db_vars, nl_vars, add_calls>>

\* the Refresh button, main.py 291-293: a new AgentManager, whose DatabaseChatAgent
\* starts disconnected (database_chat_agent.py 162-166); the connector of the old
\* agent is dropped without being closed
Refresh(fault) ==
    /\ K_agent_manager \in DOMAIN session_state
    /\ LET m == load_agents(session_state, fault, clock)
       IN  /\ agents' = m.agents
           /\ session_state' = main_prologue(DictPut(m.ss, K_agent_manager, "AgentManager"),
                                             m.agents)
    /\ connection_status' = "disconnected"
    /\ oracle_connector' = PyNone
    /\ query_history' = <<>>
    /\ last' = Observation("refresh", fault.agent, None, None,
                           IF fault = NoFault THEN "ok" ELSE "caught", 0, <<>>)
    /\ UNCHANGED <<registry, clock, backend, oracle_available, open_handles, handles_made,
                   nl_vars, add_calls>>

\* the keys the New Chat button removes, main.py 242-243: every key of the session
\* state that starts with 'agent_' or 'conversation_'
RemovedByNewChat(ss) == { k \in DOMAIN ss : k[1] \in {"agent_", "conversation_"} }

\* The New Chat button, main.py 240-247, with the rerun it ends in (main.py 333-337):
\* the keys are removed, the selected agent set to None, init_session_state puts the
\* defaults back, and as 'agent_manager' is among the removed keys a new
\* AgentManager is built: its agents initialize their sessions and its
\* DatabaseChatAgent starts disconnected; the connector of the old one is dropped
\* without being closed.
NewChat(fault) ==
    /\ LET removed == DictDel(session_state, RemovedByNewChat(session_state))
           ss1 == init_session_state(DictPut(removed, K_selected_agent, NoAgent))
           m == load_agents(ss1, fault, clock)
       IN  /\ agents' = m.agents
           /\ session_state' = main_prologue(DictPut(m.ss, K_agent_manager, "AgentManager"),
                                             m.agents)
    /\ connection_status' = "disconnected"
    /\ oracle_connector' = PyNone
    /\ query_history' = <<>>
    /\ last' = Observation("new_chat", fault.agent, None, None,
                           IF fault = NoFault THEN "ok" ELSE "caught", 0, <<>>)
    /\ UNCHANGED <<registry, clock, backend, oracle_available, open_handles, handles_made,
                   nl_vars, add_calls>>

\* The Reset All button, main.py 285-288, with its rerun: the session state is
\* cleared, the defaults are set, and main() builds a new AgentManager.
ResetAll(fault) ==
    /\ LET m == load_agents(init_session_state(EmptyDict), fault, clock)
       IN  /\ agents' = m.agents
           /\ session_state' = main_prologue(DictPut(m.ss, K_agent_manager, "AgentManager"),
                                             m.agents)
    /\ connection_status' = "disconnected"
    /\ oracle_connector' = PyNone
    /\ query_history' = <<>>
    /\ last' = Observation("reset_all", fault.agent, None, None,
                           IF fault = NoFault THEN "ok" ELSE "caught", 0, <<>>)
    /\ UNCHANGED <<registry, clock, backend, oracle_available, open_handles, handles_made,
                   nl_vars, add_calls>>

\* AgentRegistry(), either version of the class
LoadRegistry(version, fault) ==
    /\ LET r == IF version = "v1" THEN registry_load_agents_v1(session_state, fault, clock)
                ELSE registry_load_agents_v2(session_state, fault, clock)
       IN  /\ registry' = [version |-> version, fault |-> fault, agents |-> r.agents]
           /\ session_state' = r.ss
    /\ last' = Observation("load_registry", fault.agent, None, None,
                           IF fault = NoFault THEN "ok" ELSE "caught", 0, <<>>)
    /\ UNCHANGED <<agents, clock, db_vars, nl_vars, add_calls>>

(***************************************************************************)
(* The Connection tab of the database agent                                *)
(***************************************************************************)
\* the username and password fields of the form: both filled in, or not
Credentials == {"given", "blank"}

\* connect trying a second time after a failure
connect_retrying(connector, available, out, h) ==
    IF ~available THEN [ok |-> FALSE, connector |-> connector, calls |-> <<>>]
    ELSE IF out.kind = "ok"
    THEN [ok |-> TRUE, connector |-> OracleConnector(h), calls |-> <<"cx_Oracle.connect">>]
    ELSE [ok |-> FALSE, connector |-> connector,
          calls |-> <<"cx_Oracle.connect", "cx_Oracle.connect">>]

\* OracleConnector.connect, lines 57-68; h is the handle the driver would give
connect(connector, available, out, h) ==
    IF ~available THEN [ok |-> FALSE, connector |-> connector, calls |-> <<>>]
    ELSE IF out.kind = "ok"
    THEN [ok |-> TRUE, connector |-> OracleConnector(h), calls |-> <<"cx_Oracle.connect">>]
    ELSE [ok |-> FALSE, connector |-> connector, calls |-> <<"cx_Oracle.connect">>]

\* OracleConnector.test_connection, lines 39-55: its own connection, closed at once
test_connection(available, out) ==
    IF ~available THEN [ok |-> FALSE, calls |-> <<>>]
    ELSE IF out.kind = "ok"
    THEN [ok |-> TRUE, calls |-> <<"cx_Oracle.connect", "cursor.execute", "connection.close">>]
    ELSE [ok |-> FALSE, calls |-> <<"cx_Oracle.connect">>]

\* OracleConnector.close, lines 153-157: the driver's close is not guarded
close(connector, out) ==
    IF connector.connection # NoConnection
    THEN IF out.kind = "error" THEN Raised(out.msg)
         ELSE Returned(OracleConnector(NoConnection))
    ELSE Returned(connector)

\* the Connect button, lines 302-321
Connect(credentials, out) ==
    /\ backend = "driver"
    /\ Selected(DBC)
    /\ oracle_available
    /\ out.kind = "ok" => handles_made < MaxHandles
    /\ IF credentials = "given"
       THEN LET c == connect(OracleConnector(NoConnection), oracle_available, out,
                             handles_made + 1)
            IN  /\ oracle_connector' = c.connector
                /\ connection_status' = IF c.ok THEN "connected" ELSE connection_status
                /\ handles_made' = IF c.ok THEN handles_made + 1 ELSE handles_made
                /\ open_handles' = IF c.ok THEN open_handles \cup {handles_made + 1}
                                   ELSE open_handles
                /\ session_state' =
                       IF c.ok
                       THEN update_session_data(session_state, DBC,
                                DictUpdate(get_session_data(session_state, DBC),
                                           [host |-> "localhost", username |-> "<username>",
                                            service_name |-> "ORCL", connected_at |-> clock]),
                                clock)
                       ELSE session_state
                /\ last' = Observation("connect", DBC, None,
                                       IF c.ok THEN <<"Successfully connected to Oracle database!">>
                                       ELSE <<"Failed to connect. Please check your credentials and network connectivity.">>,
                                       IF c.ok THEN "ok" ELSE "failed", Len(c.calls), c.calls)
       ELSE /\ last' = Observation("connect", DBC, None, None, "noop", 0, <<>>)
            /\ UNCHANGED <<oracle_connector, connection_status, handles_made, open_handles,
                           session_state>>
    /\ UNCHANGED <<agents, registry, clock, backend, oracle_available, query_history, nl_vars, add_calls>>

\* the Test Connection button keeping the connector it tested as the agent's own
TestConnection_keeping_connector(credentials, out) ==
    /\ backend = "driver"
    /\ Selected(DBC)
    /\ oracle_available
    /\ LET t == test_connection(oracle_available, out)
       IN  /\ last' = Observation("test_connection", DBC, None, None,
                                  IF t.ok THEN "ok" ELSE "failed", 1, t.calls)
           /\ oracle_connector' = OracleConnector(NoConnection)
           /\ connection_status' = IF t.ok THEN "connected" ELSE "disconnected"
    /\ UNCHANGED <<session_state, agents, registry, clock, backend, oracle_available,
                   query_history, open_handles, handles_made, nl_vars, add_calls>>

\* the Test Connection button, lines 295-300
TestConnection(credentials, out) ==
    /\ backend = "driver"
    /\ Selected(DBC)
    /\ oracle_available
    /\ IF credentials = "given"
       THEN LET t == test_connection(oracle_available, out)
            IN  last' = Observation("test_connection", DBC, None,
                                    IF t.ok THEN <<"Connection test successful!">>
                                    ELSE <<"Connection test failed. Please check your credentials.">>,
                                    IF t.ok THEN "ok" ELSE "failed", 1, t.calls)
       ELSE last' = Observation("test_connection", DBC, None, None, "noop", 0, <<>>)
    /\ UNCHANGED <<session_state, agents, registry, clock, db_vars, nl_vars, add_calls>>

\* the Disconnect button, lines 338-343, shown while the status is connected
Disconnect(out) ==
    /\ backend = "driver"
    /\ Selected(DBC)
    /\ oracle_available
    /\ connection_status = "connected"
    /\ LET c == IF oracle_connector # PyNone THEN close(oracle_connector, out)
                ELSE Returned(PyNone)
       IN  IF c.raised
           THEN /\ last' = Observation("disconnect", DBC, None, c.value, "raised", 0,
                                       <<"connection.close">>)
                /\ UNCHANGED <<connection_status, oracle_connector, open_handles>>
           ELSE /\ connection_status' = "disconnected"
                /\ oracle_connector' = PyNone
                /\ open_handles' = IF oracle_connector # PyNone
                                   THEN open_handles \ {oracle_connector.connection}
                                   ELSE open_handles
                /\ last' = Observation("disconnect", DBC, None, None, "ok", 0,
                                       IF oracle_connector # PyNone
                                          /\ oracle_connector.connection # NoConnection
                                       THEN <<"connection.close">> ELSE <<>>)
    /\ UNCHANGED <<session_state, agents, registry, clock, backend, oracle_available,
                   query_history, handles_made, nl_vars, add_calls>>

\* the Connect to Database button of the mock, lines 645-668
MockConnect(credentials) ==
    /\ backend = "mock"
    /\ Selected(DBC)
    /\ IF credentials = "given"
       THEN /\ connection_status' = "connected"
            /\ last' = Observation("connect", DBC, None,
                                   <<"Successfully connected to Oracle database!">>, "ok", 1,
                                   <<"test_database_connection">>)
       ELSE /\ last' = Observation("connect", DBC, None,
                                   <<"Please provide username and password.">>, "noop", 0, <<>>)
            /\ UNCHANGED connection_status
    /\ UNCHANGED <<session_state, agents, registry, clock, backend, oracle_available,
                   oracle_connector, query_history, open_handles, handles_made, nl_vars, add_calls>>

\* the Disconnect button of the mock, lines 671-676
MockDisconnect ==
    /\ backend = "mock"
    /\ Selected(DBC)
    /\ connection_status = "connected"
    /\ connection_status' = "disconnected"
    /\ last' = Observation("disconnect", DBC, None, None, "ok", 0, <<>>)
    /\ UNCHANGED <<session_state, agents, registry, clock, backend, oracle_available,
                   oracle_connector, query_history, open_handles, handles_made, nl_vars, add_calls>>

\* the Test Connection button of the mock, lines 678-685
MockTestConnection ==
    /\ backend = "mock"
    /\ Selected(DBC)
    /\ last' = Observation("test_connection", DBC, None,
                           IF connection_status = "connected"
                           THEN <<"Connection is active and responding">>
                           ELSE <<"No active connection">>,
                           IF connection_status = "connected" THEN "ok" ELSE "failed", 0, <<>>)
    /\ UNCHANGED <<session_state, agents, registry, clock, db_vars, nl_vars, add_calls>>

(***************************************************************************)
(* Translator harness: the (input, catalog) pairs both translators are     *)
(* applied to.  An input is a phrase, a blank, an object and a suffix.     *)
(***************************************************************************)
NLPhrases ==
    << <<"s","h","o","w"," ","m","e"," ","a","l","l">>,   \* 'show me all'
       <<"h","o","w"," ","m","a","n","y">>,   \* 'how many'
       <<"t","e","l","l"," ","m","e"," ","a">>,   \* 'tell me a'
       <<"l","i","s","t">>,   \* 'list'
       <<"d","i","s","p","l","a","y"," ","t","h","e">>,   \* 'display the'
       <<"c","o","u","n","t">>,   \* 'count'
       <<"t","o","t","a","l">>,   \* 'total'
       <<"d","e","s","c","r","i","b","e">>,   \* 'describe'
       <<"a","l","l">>,   \* 'all'
       <<"c","o","u","n","t"," ","a","l","l"," ","f","r","o","m">>,   \* 'count all from'
       <<"t","o","p"," ","5"," ","f","r","o","m">>,   \* 'top 5 from'
       <<"S","h","o","w">>    \* 'Show'
    >>
NLObjects ==
    << <<"c","u","s","t","o","m","e","r","s">>,   \* 'customers'
       <<"o","r","d","e","r","s">>,   \* 'orders'
       <<"j","o","k","e">>,   \* 'joke'
       <<"o","r","d","e","r","s"," ","a","n","d"," ","o","r","d","e","r","_","i","t","e","m","s">>,   \* 'orders and order_items'
       <<"o","r","d","e","r","s"," ","a","n","d"," ","c","u","s","t","o","m","e","r","s">>,   \* 'orders and customers'
       <<"a","c","c","o","u","n","t","s">>,   \* 'accounts'
       <<"t","a","b","l","e","s">>,   \* 'tables'
       <<"c","u","s","t","o","m","e","r","s"," ","t","a","b","l","e">>,   \* 'customers table'
       <<"C","U","S","T","O","M","E","R","S">>    \* 'CUSTOMERS'
    >>
NLSuffixes ==
    << <<>>,   \* ''
       <<" ","f","i","r","s","t">>,   \* ' first'
       <<" ","s","a","m","p","l","e"," ","2","5">>,   \* ' sample 25'
       <<" ","s","t","r","u","c","t","u","r","e">>    \* ' structure'
    >>

NLInputs ==
    { NLPhrases[p] \o <<" ">> \o NLObjects[o] \o NLSuffixes[x] :
        p \in 1..Len(NLPhrases), o \in 1..Len(NLObjects), x \in 1..Len(NLSuffixes) }

\* The table lists a database session can answer with: get_table_list of the
\* connector returns the rows of an ORDER BY table_name query, or [] on failure.
NLCatalogs ==
    { <<T_CUSTOMERS, T_ORDERS>>, <<T_ORDERS, T_ORDER_ITEMS>>, <<T_ORDER_ITEMS, T_ORDERS>>,
      <<T_ACCOUNTS, T_TOTALS>>, <<T_ACCOUNTS, T_CUSTOMERS, T_ORDERS>>, <<>> }

\* a result slot of the harness not yet filled
Pending == <<"pending">>

\* the application stands in one of its initial states while the harness runs
TranslatorInit ==
    /\ AppInit
    /\ nl_input \in NLInputs
    /\ nl_catalog \in NLCatalogs
    /\ nl_result = [driver |-> Pending, mock |-> Pending]

\* the driver-backed translator applied to the session's table list
TranslateDriver ==
    /\ nl_result.driver = Pending
    /\ nl_result' = [nl_result EXCEPT !.driver = natural_language_to_sql(nl_input, nl_catalog)]
    /\ UNCHANGED <<nl_input, nl_catalog, app_vars, db_vars, add_calls>>

\* the mock translator; its table list is the fixed list of get_table_list
TranslateMock ==
    /\ nl_result.mock = Pending
    /\ nl_result' = [nl_result EXCEPT !.mock = mock_natural_language_to_sql(nl_input, MockTables)]
    /\ UNCHANGED <<nl_input, nl_catalog, app_vars, db_vars, add_calls>>

TranslatorNext == TranslateDriver \/ TranslateMock
SpecTranslator == TranslatorInit /\ [][TranslatorNext]_vars

(***************************************************************************)
(* The chat tabs: what the user can type, and the turn drivers             *)
(***************************************************************************)
IN_show_me_all_customers == NLPhrases[1] \o <<" ">> \o NLObjects[1]
IN_how_many_orders == NLPhrases[2] \o <<" ">> \o NLObjects[2]
IN_tell_me_a_joke == NLPhrases[3] \o <<" ">> \o NLObjects[3]
IN_blank == <<" ", " ">>
IN_generate_brd == <<"g","e","n","e","r","a","t","e"," ","b","r","d">>
IN_quality == <<"q","u","a","l","i","t","y">>
IN_hello == <<"h","e","l","l","o">>

\* the texts typed into the database agent, and into the BRD agent
DbPrompts == {IN_show_me_all_customers, IN_tell_me_a_joke, IN_blank, <<>>}
BrdPrompts == {IN_generate_brd, IN_quality, IN_hello, IN_blank, <<>>}

\* room for one more turn / one more message / one more logged query
RoomForTurn(id) == Len(get_conversation_history(session_state, id)) + 2 <= MaxConv
RoomForMessage(id) == Len(get_conversation_history(session_state, id)) + 1 <= MaxConv
RoomInHistory == Len(query_history) < MaxHistory

\* st.chat_input of the driver-backed database agent, lines 219-234
ChatTurn(prompt, tl_out, ex_out) ==
    /\ backend = "driver"
    /\ Selected(DBC)
    /\ RoomForTurn(DBC) /\ RoomInHistory
    /\ IF prompt # <<>>
       THEN LET ss1 == add_to_conversation(session_state, DBC, "user", prompt, clock)
                r == IF connection_status = "connected"
                     THEN process_input(connection_status, oracle_connector, query_history,
                                        prompt, clock, tl_out, ex_out)
                     ELSE [response |-> MSG_NEED_CONNECTION_SETUP, history |-> query_history,
                           calls |-> <<>>, sql |-> None, translated |-> FALSE]
            IN  /\ session_state' = add_to_conversation(ss1, DBC, "assistant", r.response, clock)
                /\ query_history' = r.history
                /\ last' = WithTranslation(
                       Observation("chat_turn", DBC, prompt, r.response, "ok", 0, r.calls), r)
       ELSE /\ last' = Observation("chat_turn", DBC, prompt, None, "noop", 0, <<>>)
            /\ UNCHANGED <<session_state, query_history>>
    /\ UNCHANGED <<agents, registry, clock, backend, oracle_available, connection_status,
                   oracle_connector, open_handles, handles_made, nl_vars, add_calls>>

\* the quick query buttons of the driver-backed agent, lines 236-260
QuickQuery(query_type, tl_out, ex_out) ==
    /\ backend = "driver"
    /\ Selected(DBC)
    /\ connection_status = "connected"
    /\ RoomForTurn(DBC)
    /\ LET r == execute_quick_query(oracle_connector, query_type, tl_out, ex_out)
           asked == IF query_type = "show_tables" THEN <<"Show all tables">>
                    ELSE IF query_type = "table_sizes" THEN <<"Show table row counts">>
                    ELSE <<"Show database information">>
           ss1 == add_to_conversation(session_state, DBC, "user", asked, clock)
       IN  /\ session_state' = add_to_conversation(ss1, DBC, "assistant", r.response, clock)
           /\ last' = Observation("quick_query", DBC, asked, r.response, "ok", 0, r.calls)
    /\ UNCHANGED <<agents, registry, clock, db_vars, nl_vars, add_calls>>

\* BaseAgent.render_chat_input, the Send button (agent_registry.py 240-259), as the
\* mock database agent runs it.  failure: process_input raised an exception (the
\* handlers of the mock build pandas frames and strings), described by its text.
ProcessFailures == { None, <<"out of memory">> }
FormTurn(user_input, failure) ==
    /\ backend = "mock"
    /\ Selected(DBC)
    /\ RoomForTurn(DBC) /\ RoomInHistory
    /\ IF strip(user_input) # <<>>
       THEN LET ss1 == add_to_conversation(session_state, DBC, "user", user_input, clock)
                r == mock_process_input(connection_status, query_history, user_input, clock)
            IN  IF failure = None
                THEN /\ session_state' = add_to_conversation(ss1, DBC, "agent", r.response, clock)
                     /\ query_history' = r.history
                     /\ last' = WithTranslation(
                            Observation("chat_turn", DBC, user_input, r.response, "ok", 0,
                                        r.calls), r)
                ELSE LET error_response == <<"Sorry, I encountered an error: ">> \o failure
                     IN  /\ session_state' = add_to_conversation(ss1, DBC, "agent",
                                                                 error_response, clock)
                         /\ last' = Observation("chat_turn", DBC, user_input, error_response,
                                                "caught", 0, <<>>)
                         /\ UNCHANGED query_history
       ELSE /\ last' = Observation("chat_turn", DBC, user_input, None, "noop", 0, <<>>)
            /\ UNCHANGED <<session_state, query_history>>
    /\ UNCHANGED <<agents, registry, clock, backend, oracle_available, connection_status,
                   oracle_connector, open_handles, handles_made, nl_vars, add_calls>>

\* Clear Chat removing the session record as well
ClearChat_dropping_session ==
    /\ backend = "mock"
    /\ Selected(DBC)
    /\ session_state' = DictPut(DictDel(session_state, {session_key(DBC)}),
                                conversation_key(DBC), <<>>)
    /\ last' = Observation("clear_chat", DBC, None, None, "ok", 0, <<>>)
    /\ UNCHANGED <<agents, registry, clock, db_vars, nl_vars, add_calls>>

\* BaseAgent.render_chat_input, the Clear Chat button (agent_registry.py 261-263)
ClearChat ==
    /\ backend = "mock"
    /\ Selected(DBC)
    /\ session_state' = DictPut(session_state, conversation_key(DBC), <<>>)
    /\ last' = Observation("clear_chat", DBC, None, None, "ok", 0, <<>>)
    /\ UNCHANGED <<agents, registry, clock, db_vars, nl_vars, add_calls>>

\* Mutant of MockQuickQuery: the question appended before the handler is called.
MockQuickQuery_question_first(query_type, failure) ==
    /\ backend = "mock"
    /\ Selected(DBC)
    /\ connection_status = "connected"
    /\ RoomForTurn(DBC)
    /\ LET response == mock_execute_quick_query(query_type)
           asked == IF query_type = "show_tables" THEN <<"Show all tables">>
                    ELSE IF query_type = "table_counts" THEN <<"Show table row counts">>
                    ELSE <<"Show recent data">>
           ss1 == add_to_conversation(session_state, DBC, "user", asked, clock)
       IN  IF failure = None
           THEN /\ session_state' = add_to_conversation(ss1, DBC, "agent", response, clock)
                /\ last' = Observation("quick_query", DBC, asked, response, "ok", 0, <<>>)
           ELSE /\ session_state' = ss1
                /\ last' = Observation("quick_query", DBC, asked,
                                       <<"Application error: ">> \o failure, "raised", 0, <<>>)
    /\ UNCHANGED <<agents, registry, clock, db_vars, nl_vars, add_calls>>

\* The quick query buttons of the mock, lines 589-611: the response is computed
\* first (594, 601, 608), then both messages are appended.  failure: the handler
\* raised; nothing catches it before main() does (main.py 359-361).
MockQuickQuery(query_type, failure) ==
    /\ backend = "mock"
    /\ Selected(DBC)
    /\ connection_status = "connected"
    /\ RoomForTurn(DBC)
    /\ LET response == mock_execute_quick_query(query_type)
           asked == IF query_type = "show_tables" THEN <<"Show all tables">>
                    ELSE IF query_type = "table_counts" THEN <<"Show table row counts">>
                    ELSE <<"Show recent data">>
           ss1 == add_to_conversation(session_state, DBC, "user", asked, clock)
       IN  IF failure = None
           THEN /\ session_state' = add_to_conversation(ss1, DBC, "agent", response, clock)
                /\ last' = Observation("quick_query", DBC, asked, response, "ok", 0, <<>>)
           ELSE /\ UNCHANGED session_state
                /\ last' = Observation("quick_query", DBC, asked,
                                       <<"Application error: ">> \o failure, "raised", 0, <<>>)
    /\ UNCHANGED <<agents, registry, clock, db_vars, nl_vars, add_calls>>

\* st.chat_input of the BRD agent, brd_generator_agent.py 69-81: nothing catches
\* what process_input raises before main() does (main.py 359-361)
BrdChatTurn(prompt) ==
    /\ Selected(BRD)
    /\ RoomForTurn(BRD)
    /\ IF prompt # <<>>
       THEN LET ss1 == add_to_conversation(session_state, BRD, "user", prompt, clock)
                r == brd_process_input(get_session_data(session_state, BRD), prompt)
            IN  IF r.raised
                THEN /\ session_state' = ss1
                     /\ last' = Observation("chat_turn", BRD, prompt,
                                            <<"Application error: ">> \o r.value, "raised", 0,
                                            <<>>)
                ELSE /\ session_state' = add_to_conversation(ss1, BRD, "assistant", r.value,
                                                             clock)
                     /\ last' = Observation("chat_turn", BRD, prompt, r.value, "ok", 0, <<>>)
       ELSE /\ last' = Observation("chat_turn", BRD, prompt, None, "noop", 0, <<>>)
            /\ UNCHANGED session_state
    /\ UNCHANGED <<agents, registry, clock, db_vars, nl_vars, add_calls>>

\* the Quick Start buttons of the BRD agent, lines 83-100, shown for an empty conversation
QuickStartTopics == {"brd_process", "regulatory_frameworks"}
BrdQuickStart(topic, failure) ==
    /\ Selected(BRD)
    /\ RoomForTurn(BRD)
    /\ Len(get_conversation_history(session_state, BRD)) = 0
    /\ LET asked == IF topic = "brd_process" THEN <<"Explain the BRD generation process">>
                    ELSE <<"What regulatory frameworks do you support?">>
           response == IF topic = "brd_process" THEN <<"<explain_brd_process>">>
                       ELSE <<"<explain_regulatory_frameworks>">>
           ss1 == add_to_conversation(session_state, BRD, "user", asked, clock)
       IN  IF failure = None
           THEN /\ session_state' = add_to_conversation(ss1, BRD, "assistant", response, clock)
                /\ last' = Observation("quick_start", BRD, asked, response, "ok", 0, <<>>)
           ELSE /\ UNCHANGED session_state
                /\ last' = Observation("quick_start", BRD, asked,
                                       <<"Application error: ">> \o failure, "raised", 0, <<>>)
    /\ UNCHANGED <<agents, registry, clock, db_vars, nl_vars, add_calls>>

\* the Analyze Document button, lines 130-157
AnalyzeDocument(out) ==
    /\ Selected(BRD)
    /\ RoomForMessage(BRD)
    /\ IF out.kind = "ok"
       THEN LET ss1 == update_session_data(session_state, BRD,
                           DictUpdate(get_session_data(session_state, BRD),
                                      [document_text |-> out.document_text,
                                       extracted_images |-> EmptyDict,
                                       extracted_formulas |-> <<>>,
                                       document_analysis |-> out.document_analysis,
                                       document_name |-> "basel.pdf",
                                       processed_at |-> clock]),
                           clock)
            IN  /\ session_state' = add_to_conversation(ss1, BRD, "system",
                                        <<"Processed document: ", "basel.pdf">>, clock)
                /\ last' = Observation("analyze_document", BRD, None, None, "ok", 0, <<>>)
       ELSE /\ last' = Observation("analyze_document", BRD, None,
                                   <<"Error processing document: ">> \o out.msg, "caught", 0,
                                   <<>>)
            /\ UNCHANGED session_state
    /\ UNCHANGED <<agents, registry, clock, db_vars, nl_vars, add_calls>>

\* the Generate Comprehensive BRD button, lines 170-229: shown once a document text
\* is stored and no BRD content is
GenerateBRD(out) ==
    /\ Selected(BRD)
    /\ RoomForMessage(BRD)
    /\ LET session_data == get_session_data(session_state, BRD) IN
       /\ Truthy(DictGet(session_data, "document_text", None))
       /\ ~TruthyDict(DictGet(session_data, "brd_content", EmptyDict))
       /\ IF out.kind = "ok" /\ "document_analysis" \in DOMAIN session_data
          THEN LET ss1 == update_session_data(session_state, BRD,
                              DictUpdate(session_data,
                                         [brd_content |-> out.brd_content,
                                          quality_scores |-> out.quality_scores,
                                          compliance_checks |-> EmptyDict,
                                          generated_at |-> clock,
                                          template_type |-> "Regulatory Compliance",
                                          quality_level |-> "Enterprise",
                                          compliance_focus |-> "Basel III"]),
                              clock)
               IN  /\ session_state' = add_to_conversation(ss1, BRD, "system",
                                           <<"Generated comprehensive BRD document">>, clock)
                   /\ last' = Observation("generate_brd", BRD, None, None, "ok", 0, <<>>)
          ELSE /\ last' = Observation("generate_brd", BRD, None,
                                      <<"Error generating BRD: ", "<description>">>, "caught",
                                      0, <<>>)
               /\ UNCHANGED session_state
    /\ UNCHANGED <<agents, registry, clock, db_vars, nl_vars, add_calls>>

\* the Reset button removing the session and keeping the conversation
ResetAgent_keeping_conversation(id) ==
    /\ id \in DOMAIN registry.agents
    /\ session_state' = DictDel(session_state, {session_key(id)})
    /\ last' = Observation("reset_agent", id, None, None, "ok", 0, <<>>)
    /\ UNCHANGED <<agents, registry, clock, db_vars, nl_vars, add_calls>>

\* the Reset button of the agent's card in the sidebar of the registry's selector
\* (ui/agent_selector.py 93-100), shown for an agent the registry holds
ResetAgent(id) ==
    /\ id \in DOMAIN registry.agents
    /\ session_state' = DictDel(session_state, {session_key(id), conversation_key(id)})
    /\ last' = Observation("reset_agent", id, None, None, "ok", 0, <<>>)
    /\ UNCHANGED <<agents, registry, clock, db_vars, nl_vars, add_calls>>

(***************************************************************************)
(* BaseAgent.add_to_conversation (agent_registry.py 137-148) run by two    *)
(* callers at once for the BRD agent, one statement at a time              *)
(***************************************************************************)
AllIdle == \A t \in Threads : add_calls.pc[t] = "idle"
AllDone == \A t \in Threads : add_calls.pc[t] = "done"
\* what each caller adds
CallerMessage(t, now) ==
    [role |-> IF t = 1 THEN "user" ELSE "assistant",
     content |-> IF t = 1 THEN IN_hello ELSE <<"<reply>">>,
     timestamp |-> isoformat(now), metadata |-> EmptyDict]

\* Mutant of AddMessageRead: get_conversation_history handing out a copy of the list
AddMessageRead_copying(t) ==
    /\ add_calls.pc[t] = "idle"
    /\ AllIdle => RoomForTurn(BRD)
    /\ LET present == conversation_key(BRD) \in DOMAIN session_state
           heap1 == Append(add_calls.heap, get_conversation_history(session_state, BRD))
       IN  add_calls' =
               [add_calls EXCEPT !.pc[t] = "read",
                                 !.message[t] = CallerMessage(t, clock),
                                 !.heap = heap1,
                                 !.local[t] = <<Len(heap1)>>,
                                 !.base = IF AllIdle
                                          THEN get_conversation_history(session_state, BRD)
                                          ELSE @,
                                 !.base_present = IF AllIdle THEN present ELSE @]
    /\ UNCHANGED <<app_vars, db_vars, nl_vars>>

\* lines 139-146: the message is built and `conversation` is bound to what
\* st.session_state.get(key, []) returns: the list object stored under the key, or
\* a new empty list of the caller's own when the key is absent
AddMessageRead(t) ==
    /\ add_calls.pc[t] = "idle"
    /\ AllIdle => RoomForTurn(BRD)
    /\ LET present == conversation_key(BRD) \in DOMAIN session_state
           known == present /\ add_calls.stored # NoObject
           heap1 == IF known THEN add_calls.heap
                    ELSE Append(add_calls.heap, get_conversation_history(session_state, BRD))
           ref == IF known THEN add_calls.stored ELSE <<Len(heap1)>>
       IN  add_calls' =
               [add_calls EXCEPT !.pc[t] = "read",
                                 !.message[t] = CallerMessage(t, clock),
                                 !.heap = heap1,
                                 !.local[t] = ref,
                                 !.stored = IF present THEN ref ELSE NoObject,
                                 !.base = IF AllIdle
                                          THEN get_conversation_history(session_state, BRD)
                                          ELSE @,
                                 !.base_present = IF AllIdle THEN present ELSE @]
    /\ UNCHANGED <<app_vars, db_vars, nl_vars>>

\* line 147: conversation.append(message) changes the list object in place; the
\* session state shows the change when that object is the stored one
AddMessageAppend(t) ==
    /\ add_calls.pc[t] = "read"
    /\ LET ref == add_calls.local[t]
           heap1 == [add_calls.heap EXCEPT ![ref[1]] = Append(@, add_calls.message[t])]
       IN  /\ add_calls' = [add_calls EXCEPT !.pc[t] = "appended", !.heap = heap1]
           /\ session_state' = IF ref = add_calls.stored
                               THEN DictPut(session_state, conversation_key(BRD), heap1[ref[1]])
                               ELSE session_state
    /\ UNCHANGED <<agents, registry, clock, last, db_vars, nl_vars>>

\* line 148: st.session_state[key] = conversation
AddMessageWrite(t) ==
    /\ add_calls.pc[t] = "appended"
    /\ LET ref == add_calls.local[t]
       IN  /\ add_calls' = [add_calls EXCEPT !.pc[t] = "done", !.stored = ref]
           /\ session_state' = DictPut(session_state, conversation_key(BRD),
                                       add_calls.heap[ref[1]])
    /\ UNCHANGED <<agents, registry, clock, last, db_vars, nl_vars>>

\* both calls have returned
AddMessageReturn ==
    /\ AllDone
    /\ add_calls' = NoCalls
    /\ last' = Observation("add_message", BRD, None, None, "ok", 0, <<>>)
    /\ UNCHANGED <<session_state, agents, registry, clock, db_vars, nl_vars>>


(***************************************************************************)
(* Specifications                                                          *)
(***************************************************************************)
\* the user works in the database agent; every timestamp reads the same clock value
DbNext ==
    \/ SelectAgent(DBC)
    \/ \E c \in Credentials, out \in ConnectOutcomes : Connect(c, out)
    \/ \E c \in Credentials, out \in ConnectOutcomes : TestConnection(c, out)
    \/ \E out \in CloseOutcomes : Disconnect(out)
    \/ \E c \in Credentials : MockConnect(c)
    \/ MockDisconnect
    \/ MockTestConnection
    \/ \E p \in DbPrompts, tl \in TableListOutcomes, ex \in ExecOutcomes : ChatTurn(p, tl, ex)
    \/ \E q \in QuickTypes, tl \in TableListOutcomes, ex \in ExecOutcomes : QuickQuery(q, tl, ex)
    \/ \E p \in DbPrompts, f \in ProcessFailures : FormTurn(p, f)
    \/ ClearChat
    \/ \E q \in MockQuickTypes, f \in ProcessFailures : MockQuickQuery(q, f)
SpecDb == Init /\ [][DbNext]_vars

\* the user works in the BRD agent
BrdNext ==
    \/ Tick
    \/ SelectAgent(BRD)
    \/ \E p \in BrdPrompts : BrdChatTurn(p)
    \/ \E t \in QuickStartTopics, f \in ProcessFailures : BrdQuickStart(t, f)
    \/ \E out \in DocumentOutcomes : AnalyzeDocument(out)
    \/ \E out \in GenerateOutcomes : GenerateBRD(out)
SpecBrd == Init /\ [][BrdNext]_vars

\* the agents are loaded again, by the manager and by either registry
LoadNext ==
    \/ Tick
    \/ \E id \in {BRD, DBC} : SelectAgent(id)
    \/ \E f \in {NoFault} \cup ConstructorFaults : Refresh(f)
    \/ \E v \in {"v1", "v2"}, f \in {NoFault} \cup ConstructorFaults \cup ImportFaults :
           LoadRegistry(v, f)
SpecLoad == Init /\ [][LoadNext]_vars

\* the chat drivers of both agents, each in a session where its agent is selected
ChatNext ==
    \/ Tick
    \/ \E c \in Credentials : MockConnect(c)
    \/ \E p \in DbPrompts, f \in ProcessFailures : FormTurn(p, f)
    \/ ClearChat
    \/ \E p \in DbPrompts, tl \in TableListOutcomes, ex \in ExecOutcomes : ChatTurn(p, tl, ex)
    \/ \E p \in BrdPrompts : BrdChatTurn(p)
    \/ \E t \in QuickStartTopics, f \in ProcessFailures : BrdQuickStart(t, f)
    \/ \E out \in DocumentOutcomes : AnalyzeDocument(out)
    \/ \E out \in GenerateOutcomes : GenerateBRD(out)
SpecChat == InitSelected /\ [][ChatNext]_vars

\* the quick-action buttons of both agents, with either agent selected
QuickNext ==
    \/ Tick
    \/ Connect("given", [kind |-> "ok"])
    \/ \E c \in Credentials : MockConnect(c)
    \/ \E q \in QuickTypes, tl \in TableListOutcomes, ex \in ExecOutcomes : QuickQuery(q, tl, ex)
    \/ \E q \in MockQuickTypes, f \in ProcessFailures : MockQuickQuery(q, f)
    \/ \E t \in QuickStartTopics, f \in ProcessFailures : BrdQuickStart(t, f)
    \/ ClearChat
SpecQuick == InitSelected /\ [][QuickNext]_vars

\* the session and the connection across the sidebar's buttons
LifecycleNext ==
    \/ \E id \in {BRD, DBC} : SelectAgent(id)
    \/ LoadRegistry("v2", NoFault)
    \/ \E id \in {BRD, DBC} : ResetAgent(id)
    \/ Connect("given", [kind |-> "ok"])
    \/ Disconnect([kind |-> "ok"])
    \/ FormTurn(IN_tell_me_a_joke, None)
    \/ ClearChat
    \/ BrdChatTurn(IN_hello)
    \/ \E out \in DocumentOutcomes : AnalyzeDocument(out)
    \/ NewChat(NoFault)
    \/ ResetAll(NoFault)
    \/ Refresh(NoFault)
SpecLifecycle == Init /\ [][LifecycleNext]_vars

\* two interleaved calls of add_to_conversation, between per-agent resets and
\* registry loads that happen while no call is running
AddMessageNext ==
    \/ \E t \in Threads : AddMessageRead(t)
    \/ \E t \in Threads : AddMessageAppend(t)
    \/ \E t \in Threads : AddMessageWrite(t)
    \/ AddMessageReturn
    \/ (AllIdle /\ LoadRegistry("v2", NoFault))
    \/ (AllIdle /\ ResetAgent(BRD))
    \/ (AllIdle /\ Tick)
SpecAddMessage == Init /\ [][AddMessageNext]_vars

\* both agents in one session: each can be chosen, talked to, given session data,
\* cleared and reset, and the registry constructs the agents again; every timestamp
\* reads the same clock value
SessionNext ==
    \/ \E id \in {BRD, DBC} : SelectAgent(id)
    \/ LoadRegistry("v2", NoFault)
    \/ \E id \in {BRD, DBC} : ResetAgent(id)
    \/ Connect("given", [kind |-> "ok"])
    \/ FormTurn(IN_tell_me_a_joke, None)
    \/ ClearChat
    \/ BrdChatTurn(IN_hello)
    \/ \E out \in DocumentOutcomes : AnalyzeDocument(out)
SpecSession == Init /\ [][SessionNext]_vars

\* conversations under a local clock that runs and can be set back
ClockNext ==
    \/ Tick
    \/ ClockSetBack
    \/ \E c \in Credentials : MockConnect(c)
    \/ FormTurn(IN_tell_me_a_joke, None)
    \/ ClearChat
    \/ BrdChatTurn(IN_hello)
    \/ \E out \in DocumentOutcomes : AnalyzeDocument(out)
SpecClock == InitSelected /\ [][ClockNext]_vars

(***************************************************************************)
(* Claims about the translators (checked under SpecTranslator)             *)
(***************************************************************************)

\* the input names table T: T's name occurs in it, compared case-insensitively
Names(input, T) == T # <<>> /\ Contains(lower(input), lower(T))
\* T is the first entry of the catalog that the input names
FirstNamed(input, catalog, T) ==
    \E i \in 1..Len(catalog) :
        /\ catalog[i] = T
        /\ Names(input, T)
        /\ \A j \in 1..(i - 1) : ~Names(input, catalog[j])
NamedTables(input, catalog) == { i \in 1..Len(catalog) : Names(input, catalog[i]) }

HasShowWord(input) == AnyIn(<<W_show, W_display, W_list, W_all>>, lower(input))
HasCountWord(input) == AnyIn(<<W_count, W_how_many, W_total>>, lower(input))
HasLimitWord(input) == AnyIn(<<W_first, W_top, W_10, W_sample>>, lower(input))
\* the input asks for the table list: show/list/display together with "table"
AsksForTableList(input) ==
    AnyIn(<<W_show, W_list, W_display>>, lower(input)) /\ Contains(lower(input), W_table)

DriverDone == nl_result.driver # Pending
MockDone == nl_result.mock # Pending

\* C5 as stated: "show me all customers" with catalog [CUSTOMERS, ORDERS] gives
\* exactly SELECT * FROM CUSTOMERS, and every input naming a catalog table T with a
\* show keyword, no count keyword and no limit keyword gives exactly SELECT * FROM T,
\* in either translator.
C5_Original ==
    /\ DriverDone =>
        /\ (nl_input = IN_show_me_all_customers /\ nl_catalog = <<T_CUSTOMERS, T_ORDERS>>)
              => nl_result.driver = SQL_SELECT \o T_CUSTOMERS
        /\ \A i \in 1..Len(nl_catalog) :
              ( /\ FirstNamed(nl_input, nl_catalog, nl_catalog[i])
                /\ HasShowWord(nl_input) /\ ~HasCountWord(nl_input) /\ ~HasLimitWord(nl_input) )
              => nl_result.driver = SQL_SELECT \o nl_catalog[i]
    /\ MockDone =>
        /\ nl_input = IN_show_me_all_customers => nl_result.mock = SQL_SELECT \o T_CUSTOMERS
        /\ \A i \in 1..Len(MockTables) :
              ( /\ FirstNamed(nl_input, MockTables, MockTables[i])
                /\ HasShowWord(nl_input) /\ ~HasCountWord(nl_input) /\ ~HasLimitWord(nl_input) )
              => nl_result.mock = SQL_SELECT \o MockTables[i]

\* C5 amended: the driver-backed translator maps "show me all customers" with catalog
\* [CUSTOMERS, ORDERS] to exactly SELECT * FROM CUSTOMERS, and every input that does
\* not ask for the table list (show/list/display with "table"), whose first named
\* catalog table is T, with a show keyword, no count keyword and no limit keyword,
\* to exactly SELECT * FROM T; the mock translator returns no query for
\* "show me all customers".
C5_Amended ==
    /\ DriverDone =>
        /\ (nl_input = IN_show_me_all_customers /\ nl_catalog = <<T_CUSTOMERS, T_ORDERS>>)
              => nl_result.driver = SQL_SELECT \o T_CUSTOMERS
        /\ \A i \in 1..Len(nl_catalog) :
              ( /\ FirstNamed(nl_input, nl_catalog, nl_catalog[i])
                /\ ~AsksForTableList(nl_input)
                /\ HasShowWord(nl_input) /\ ~HasCountWord(nl_input) /\ ~HasLimitWord(nl_input) )
              => nl_result.driver = SQL_SELECT \o nl_catalog[i]
    /\ (MockDone /\ nl_input = IN_show_me_all_customers) => nl_result.mock = None

C5_Witness ==
    /\ nl_input = IN_show_me_all_customers
    /\ nl_catalog = <<T_CUSTOMERS, T_ORDERS>>
    /\ nl_result.driver = SQL_SELECT \o T_CUSTOMERS
    /\ nl_result.mock = None

\* C6 as stated: "how many orders" with catalog [CUSTOMERS, ORDERS] gives exactly
\* SELECT COUNT(*) FROM ORDERS, and every input naming a catalog table T with a count
\* keyword gives exactly SELECT COUNT(*) FROM T, in either translator.
C6_Original ==
    /\ DriverDone =>
        /\ (nl_input = IN_how_many_orders /\ nl_catalog = <<T_CUSTOMERS, T_ORDERS>>)
              => nl_result.driver = SQL_COUNT \o T_ORDERS
        /\ \A i \in 1..Len(nl_catalog) :
              (FirstNamed(nl_input, nl_catalog, nl_catalog[i]) /\ HasCountWord(nl_input))
              => nl_result.driver = SQL_COUNT \o nl_catalog[i]
    /\ MockDone =>
        /\ nl_input = IN_how_many_orders => nl_result.mock = SQL_COUNT \o T_ORDERS
        /\ \A i \in 1..Len(MockTables) :
              (FirstNamed(nl_input, MockTables, MockTables[i]) /\ HasCountWord(nl_input))
              => nl_result.mock = SQL_COUNT \o MockTables[i]

\* C6 amended: the driver-backed translator maps "how many orders" with catalog
\* [CUSTOMERS, ORDERS] to exactly SELECT COUNT(*) as total_rows FROM ORDERS, and every
\* input that does not ask for the table list, whose first named catalog table is T,
\* with a count keyword, to exactly SELECT COUNT(*) as total_rows FROM T; the mock
\* translator returns no query for "how many orders" and emits SELECT COUNT(*) FROM T
\* for an input with "count" that names T, unless the input has both "all" and "from".
C6_Amended ==
    /\ DriverDone =>
        /\ (nl_input = IN_how_many_orders /\ nl_catalog = <<T_CUSTOMERS, T_ORDERS>>)
              => nl_result.driver = SQL_COUNT_AS \o T_ORDERS
        /\ \A i \in 1..Len(nl_catalog) :
              ( /\ FirstNamed(nl_input, nl_catalog, nl_catalog[i])
                /\ ~AsksForTableList(nl_input)
                /\ HasCountWord(nl_input) )
              => nl_result.driver = SQL_COUNT_AS \o nl_catalog[i]
    /\ MockDone =>
        /\ nl_input = IN_how_many_orders => nl_result.mock = None
        /\ \A i \in 1..Len(MockTables) :
              ( /\ FirstNamed(nl_input, MockTables, MockTables[i])
                /\ Contains(lower(nl_input), W_count)
                /\ ~(Contains(lower(nl_input), W_all) /\ Contains(lower(nl_input), W_from)) )
              => nl_result.mock = SQL_COUNT \o MockTables[i]

C6_Witness ==
    /\ nl_input = IN_how_many_orders
    /\ nl_catalog = <<T_CUSTOMERS, T_ORDERS>>
    /\ nl_result.driver = SQL_COUNT_AS \o T_ORDERS
    /\ nl_result.mock = None

\* the SQL text is one of the templates instantiated with table T
IsPrefix(p, s) == Len(p) <= Len(s) /\ SubSeq(s, 1, Len(p)) = p
UsesTable(sql, T) ==
    /\ sql # None
    /\ \/ sql \in { SQL_COUNT_AS \o T, SQL_COUNT \o T, SQL_SELECT \o T,
                    SQL_DESC_1 \o T \o SQL_DESC_2 }
       \/ IsPrefix(SQL_SELECT \o T \o SQL_ROWNUM, sql)

\* C7: when the input names two or more catalog tables and the translator emits a
\* statement on a table, that table is the first named one in catalog order, not
\* another named one (a later or longer one).
C7_TieBreak ==
    /\ (DriverDone /\ Cardinality(NamedTables(nl_input, nl_catalog)) >= 2) =>
          \A i \in 1..Len(nl_catalog) :
              UsesTable(nl_result.driver, nl_catalog[i])
                  => FirstNamed(nl_input, nl_catalog, nl_catalog[i])
    /\ (MockDone /\ Cardinality(NamedTables(nl_input, MockTables)) >= 2) =>
          \A i \in 1..Len(MockTables) :
              UsesTable(nl_result.mock, MockTables[i])
                  => FirstNamed(nl_input, MockTables, MockTables[i])

\* both ORDERS and ORDER_ITEMS occur in the input; the first catalog entry is used,
\* in the driver-backed translator and (CUSTOMERS before ORDERS) in the mock one
C7_Witness ==
    /\ nl_catalog = <<T_ORDERS, T_ORDER_ITEMS>>
    /\ Names(nl_input, T_ORDERS) /\ Names(nl_input, T_ORDER_ITEMS)
    /\ nl_result.driver = SQL_SELECT \o T_ORDERS

(***************************************************************************)
(* Claims about the chat drivers                                           *)
(***************************************************************************)
Conversation(id) == get_conversation_history(session_state, id)

\* the step appended the user's message and then the reply to the conversation of id
AppendedTurn(id, input, roles) ==
    LET before == get_conversation_history(session_state, id)
        after == get_conversation_history(session_state', id)
        n == Len(before)
    IN  /\ Len(after) = n + 2
        /\ SubSeq(after, 1, n) = before
        /\ after[n + 1].role = "user"
        /\ after[n + 1].content = input
        /\ after[n + 2].role \in roles
        /\ after[n + 2].content = last'.response

\* C1: in the form driver of the base class (as the database agent runs it), in the
\* chat-input driver of the driver-backed database agent and in the chat-input driver
\* of the BRD agent, a turn that completes - process_input returned, or the form
\* driver caught its failure - keeps the conversation as it was as a prefix and
\* appends exactly the user's message and then the agent's reply; Clear Chat leaves
\* the conversation empty.
C1_TurnAppendsTwo ==
    [][ /\ \A p \in DbPrompts, f \in ProcessFailures :
              FormTurn(p, f) /\ last'.outcome \in {"ok", "caught"}
                  => AppendedTurn(DBC, p, {"agent"})
        /\ \A p \in DbPrompts, tl \in TableListOutcomes, ex \in ExecOutcomes :
              ChatTurn(p, tl, ex) /\ last'.outcome = "ok"
                  => AppendedTurn(DBC, p, {"assistant"})
        /\ \A p \in BrdPrompts :
              BrdChatTurn(p) /\ last'.outcome = "ok" => AppendedTurn(BRD, p, {"assistant"})
        /\ ClearChat => Len(get_conversation_history(session_state', DBC)) = 0
      ]_vars

\* a second turn of the form driver has completed, by catching a failure
C1_Witness ==
    /\ last.op = "chat_turn" /\ last.agent = DBC /\ last.outcome = "caught"
    /\ Len(Conversation(DBC)) = 4
    /\ Conversation(DBC)[1].content = IN_tell_me_a_joke

\* C2: whatever chat driver ran the turn, a turn never lets the failure of
\* process_input escape, and never ends with the user's message as the last entry
\* of the conversation.
C2_NoTurnEndsOnUserMessage ==
    \A id \in {BRD, DBC} :
        last.op = "chat_turn" /\ last.agent = id /\ last.outcome # "noop"
            => /\ last.outcome # "raised"
               /\ Conversation(id) # <<>>
               /\ Conversation(id)[Len(Conversation(id))].role # "user"

(***************************************************************************)
(* Claims about the database session                                       *)
(***************************************************************************)
\* C3: whenever the status of the database agent is connected, the agent holds a
\* connector whose connection is a handle that is open.
C3_ConnectedHasLiveHandle ==
    connection_status = "connected"
        => /\ oracle_connector # PyNone
           /\ oracle_connector.connection # NoConnection
           /\ oracle_connector.connection \in open_handles

\* the driver calls that OracleConnector.execute_query makes
ExecuteCalls == {"execute_query: cursor.execute", "execute_query: commit"}

\* C8: a turn in which the translator was asked and gave None (as it does for
\* "tell me a joke") calls execute_query not at all, leaves the query history as it
\* was, and answers with the request to be more specific.
C8_NoQueryNoExecution ==
    [][ ( /\ last'.op = "chat_turn" /\ last'.translated
          /\ \/ \E tl \in TableListOutcomes, ex \in ExecOutcomes :
                   ChatTurn(last'.input, tl, ex)
             \/ \E f \in ProcessFailures : FormTurn(last'.input, f) )
        => /\ last'.input = IN_tell_me_a_joke => last'.sql = None
           /\ last'.sql = None
                 => /\ \A i \in 1..Len(last'.calls) : last'.calls[i] \notin ExecuteCalls
                    /\ query_history' = query_history
                    /\ last'.response =
                           IF backend = "driver" THEN MSG_CLARIFY_DRIVER ELSE MSG_CLARIFY_MOCK
      ]_vars

\* a connected session of either implementation was asked for a joke
C8_Witness ==
    /\ last.op = "chat_turn" /\ last.translated /\ last.sql = None
    /\ last.input = IN_tell_me_a_joke
    /\ connection_status = "connected"
    /\ Len(query_history) = 1

\* C9: a Connect with username and password makes exactly one attempt to open a
\* connection (the driver's connect, or test_database_connection of the mock), a
\* Connect without them makes none; and when the attempt fails in a disconnected
\* session, the status is still disconnected, no handle has been opened and the
\* connector holds none.
C9_FailedConnectStaysDisconnected ==
    [][ /\ \A c \in Credentials, out \in ConnectOutcomes :
              Connect(c, out)
                  => /\ last'.attempts = (IF c = "given" THEN 1 ELSE 0)
                     /\ (connection_status = "disconnected" /\ last'.outcome = "failed")
                           => /\ connection_status' = "disconnected"
                              /\ oracle_connector'.connection = NoConnection
                              /\ open_handles' = open_handles
        /\ \A c \in Credentials :
              MockConnect(c)
                  => /\ last'.attempts = (IF c = "given" THEN 1 ELSE 0)
                     /\ last'.outcome # "failed"
      ]_vars

\* a connect attempt has failed in a disconnected session
C9_Witness ==
    /\ last.op = "connect" /\ last.outcome = "failed" /\ last.attempts = 1
    /\ connection_status = "disconnected"
    /\ oracle_connector = OracleConnector(NoConnection)

\* C10: after Disconnect the status is disconnected and no connector is held,
\* whatever the connection's close did, and nothing escapes.
C10_DisconnectTotal ==
    last.op = "disconnect"
        => /\ last.outcome = "ok"
           /\ connection_status = "disconnected"
           /\ oracle_connector = PyNone

(***************************************************************************)
(* Claims about loading the agents                                         *)
(***************************************************************************)
Other(id) == IF id = BRD THEN DBC ELSE BRD

\* C4: when the load of one of the two agents fails, by an ImportError or by any
\* other exception, the manager and the registry still hold the other agent.
C4_PartialLoad ==
    /\ (last.op = "refresh" /\ last.agent # NoAgent) => Other(last.agent) \in DOMAIN agents
    /\ registry.fault # NoFault => Other(registry.fault.agent) \in DOMAIN registry.agents

(***************************************************************************)
(* Claims about the disconnected session (checked under SpecDb)            *)
(***************************************************************************)

\* the queries the agent and its tabs hand to execute_query
SomeQueries == {SQL_TABLES, SQL_SELECT \o T_CUSTOMERS, <<"D","E","S","C","R","I","B","E"," ">> \o T_ORDERS}

\* C11: while the status is not connected, no request reaches the driver: a connector
\* that exists holds no connection, so that execute_query fails with "No active
\* connection", the table list is empty and the row count is 0, each without a driver
\* call; process_input answers with the need-a-connection message, logs nothing and
\* makes no driver call; and a chat turn made in this state records no driver call.
C11_DisconnectedNoDriverCall ==
    connection_status # "connected" =>
        /\ oracle_connector # PyNone =>
              /\ oracle_connector.connection = NoConnection
              /\ \A q \in SomeQueries, ex \in ExecOutcomes :
                     LET r == execute_query(oracle_connector, q, ex)
                     IN  /\ ~r.success /\ r.results = PyNone
                         /\ r.error = <<"No active connection">>
                         /\ r.calls = <<>>
              /\ \A out \in ExecOutcomes :
                     /\ get_table_list(oracle_connector, out) = [tables |-> <<>>, calls |-> <<>>]
                     /\ get_table_row_count(oracle_connector, out) = [count |-> 0, calls |-> <<>>]
        /\ \A p \in DbPrompts \ {<<>>}, tl \in TableListOutcomes, ex \in ExecOutcomes :
              LET d == process_input(connection_status, oracle_connector, query_history, p,
                                     clock, tl, ex)
                  m == mock_process_input(connection_status, query_history, p, clock)
              IN  /\ d.response = MSG_NEED_CONNECTION_SETUP /\ d.calls = <<>>
                  /\ d.history = query_history
                  /\ m.response = MSG_NEED_CONNECTION /\ m.calls = <<>>
                  /\ m.history = query_history
        /\ \A qt \in QuickTypes, tl \in TableListOutcomes, ex \in ExecOutcomes :
              execute_quick_query(oracle_connector, qt, tl, ex).calls = <<>>
        /\ last.op = "chat_turn" =>
              /\ last.calls = <<>>
              /\ ~last.translated
              /\ last.outcome = "ok" =>
                    last.response = IF backend = "driver" THEN MSG_NEED_CONNECTION_SETUP
                                    ELSE MSG_NEED_CONNECTION

\* a question was asked after a connect that failed: a connector exists, without a connection
C11_Witness ==
    /\ connection_status = "disconnected"
    /\ oracle_connector # PyNone
    /\ last.op = "chat_turn" /\ last.outcome = "ok"
    /\ last.input = IN_show_me_all_customers
    /\ last.response = MSG_NEED_CONNECTION_SETUP

\* the user actions of the driver-backed agent that reach an OracleConnector operation
ConnectorOps == {"connect", "test_connection", "disconnect", "chat_turn", "quick_query"}

\* C12: no operation of the connector lets a failure of the driver leave it as an
\* exception: an action of the driver-backed agent that reaches the connector never
\* ends raised, and a chat turn or quick query, whatever its execute did, leaves
\* the connector, its handle and the status as they were.
C12_NoDriverFailureEscapes ==
    [][ (backend = "driver" /\ last'.op \in ConnectorOps)
            => /\ last'.outcome # "raised"
               /\ last'.op \in {"chat_turn", "quick_query"}
                     => /\ oracle_connector' = oracle_connector
                        /\ connection_status' = connection_status
                        /\ open_handles' = open_handles
      ]_vars

(***************************************************************************)
(* Claims about the query history (checked under SpecDb)                   *)
(***************************************************************************)

\* C13: every query the agent hands to execute_query and that fails adds one entry
\* to the query history, holding the question, the SQL and the error, with
\* success false: whenever a chat turn or a quick query of the driver-backed agent
\* reached cursor.execute and the driver failed there, the history is one entry
\* longer afterwards and its last entry records that failure.
C13_FailedQueriesLogged ==
    [][ \A tl \in TableListOutcomes, ex \in ExecOutcomes :
          ( /\ backend = "driver"
            /\ last'.op \in {"chat_turn", "quick_query"}
            /\ ex.kind = "error"
            /\ \E i \in 1..Len(last'.calls) : last'.calls[i] \in ExecuteCalls
            /\ \/ ChatTurn(last'.input, tl, ex)
               \/ \E q \in QuickTypes : QuickQuery(q, tl, ex) )
          => /\ Len(query_history') = Len(query_history) + 1
             /\ LET entry == query_history'[Len(query_history')]
                IN  /\ entry.success = FALSE
                    /\ entry.question = last'.input
                    /\ entry.sql # None
                    /\ last'.op = "chat_turn" => entry.sql = last'.sql
                    /\ entry.error = <<"Query execution error: ">> \o ex.msg
      ]_vars

(***************************************************************************)
(* Claims about the session store (checked under SpecSession)              *)
(***************************************************************************)

\* initialize_session(ss, id, now) has no effect on ss
NoEffect(ss, id, now) == initialize_session(ss, id, now) = ss

\* C14: initialize_session is idempotent.  In every state a step leads to, and for
\* either agent: where the session and the conversation exist, initialize_session
\* leaves the store exactly as it is; a session that exists is never replaced; a
\* session that does not exist is created with initialized true, empty context and
\* empty history, a conversation that does not exist is created empty; and a second
\* call after the first changes nothing.  A step that constructs the agents again
\* (the registry) keeps every session and conversation that existed.
C14_InitializeSessionIdempotent ==
    [][ /\ \A id \in {BRD, DBC}, now \in 0..MaxClock :
              LET ss == session_state'
                  once == initialize_session(ss, id, now)
              IN  /\ (session_key(id) \in DOMAIN ss /\ conversation_key(id) \in DOMAIN ss)
                         => NoEffect(ss, id, now)
                  /\ session_key(id) \in DOMAIN ss
                         => once[session_key(id)] = ss[session_key(id)]
                  /\ conversation_key(id) \in DOMAIN ss
                         => once[conversation_key(id)] = ss[conversation_key(id)]
                  /\ session_key(id) \notin DOMAIN ss
                         => once[session_key(id)] =
                                [initialized |-> TRUE, last_activity |-> now,
                                 context |-> EmptyDict, history |-> <<>>]
                  /\ conversation_key(id) \notin DOMAIN ss
                         => once[conversation_key(id)] = <<>>
                  /\ \A k \in DOMAIN ss \ {session_key(id), conversation_key(id)} :
                         once[k] = ss[k]
                  /\ \A later \in now..MaxClock : NoEffect(once, id, later)
        /\ last'.op = "load_registry"
              => \A id \in {BRD, DBC} :
                    \A k \in {session_key(id), conversation_key(id)} \cap DOMAIN session_state :
                        k \in DOMAIN session_state' /\ session_state'[k] = session_state[k]
      ]_vars

\* the agents were constructed again over one agent's conversation and session data
\* in use, and after the other agent's session (which held the connection details)
\* had been removed
C14_Witness ==
    /\ last.op = "load_registry"
    /\ Len(get_conversation_history(session_state, BRD)) > 0
    /\ "document_name" \in DOMAIN get_session_data(session_state, BRD)
    /\ connection_status = "connected"
    /\ get_session_data(session_state, DBC) =
           [initialized |-> TRUE, last_activity |-> clock, context |-> EmptyDict,
            history |-> <<>>]

\* C16: the Reset of an agent removes both its session and its conversation from
\* the store; right afterwards get_session_data gives an empty mapping and
\* get_conversation_history an empty list (neither fails on the absent key), and
\* the Reset itself ends without an error.
C16_ResetRemovesBothRegions ==
    [][ \A id \in {BRD, DBC} :
          (last'.op = "reset_agent" /\ last'.agent = id /\ ResetAgent(id))
              => /\ session_key(id) \notin DOMAIN session_state'
                 /\ conversation_key(id) \notin DOMAIN session_state'
                 /\ get_session_data(session_state', id) = EmptyDict
                 /\ get_conversation_history(session_state', id) = <<>>
                 /\ last'.outcome = "ok"
      ]_vars

\* the database agent, whose session held the details of its connection, has just
\* been reset
C16_Witness ==
    /\ last.op = "reset_agent" /\ last.agent = DBC
    /\ connection_status = "connected"
    /\ session_key(DBC) \notin DOMAIN session_state
    /\ conversation_key(DBC) \notin DOMAIN session_state

(***************************************************************************)
(* Claims about the chat entry points (checked under SpecChat)             *)
(***************************************************************************)

\* C18: Clear Chat leaves the agent's conversation empty and its session record
\* (initialized, context, history and whatever else it holds) as it was; nothing
\* else in the store changes either, nor does the agent's connection or query log.
C18_ClearChatFrame ==
    [][ ClearChat
            => /\ conversation_key(DBC) \in DOMAIN session_state'
               /\ get_conversation_history(session_state', DBC) = <<>>
               /\ session_key(DBC) \in DOMAIN session_state'
                     <=> session_key(DBC) \in DOMAIN session_state
               /\ get_session_data(session_state', DBC) = get_session_data(session_state, DBC)
               /\ \A k \in DOMAIN session_state \ {conversation_key(DBC)} :
                     k \in DOMAIN session_state' /\ session_state'[k] = session_state[k]
               /\ UNCHANGED <<connection_status, query_history>>
      ]_vars

\* the chat of the connected agent has just been cleared, at a later time than the
\* session record was made
C18_Witness ==
    /\ last.op = "clear_chat"
    /\ connection_status = "connected"
    /\ clock > get_session_data(session_state, DBC).last_activity
    /\ get_conversation_history(session_state, DBC) = <<>>
    /\ get_session_data(session_state, DBC).initialized

\* C15: in every chat entry point an input that is empty once its whitespace is
\* trimmed is a no-op: the turn appends no message (the store is unchanged), does
\* not run process_input (nothing is answered, translated or logged) and reports
\* no error.
C15_BlankInputIsNoOp ==
    [][ (last'.op = "chat_turn" /\ strip(last'.input) = <<>>)
            => /\ last'.outcome = "noop"
               /\ last'.response = None
               /\ session_state' = session_state
               /\ query_history' = query_history
      ]_vars

(***************************************************************************)
(* Claims about the messages of a conversation (checked under SpecClock)   *)
(***************************************************************************)

\* a <= b for two texts made of a common first part, digits and full stops, as
\* Python compares strings: by the first character that differs, a prefix first
RECURSIVE str_le(_, _)
str_le(a, b) ==
    LET ord(c) == IF c = "." THEN 46 ELSE 48 + (CHOOSE d \in 0..9 : DigitChar(d) = c)
    IN  IF a = <<>> THEN TRUE
        ELSE IF b = <<>> THEN FALSE
        ELSE IF a[1] = b[1] THEN str_le(Tail(a), Tail(b))
        ELSE ord(a[1]) < ord(b[1])

\* the timestamps of a conversation never go down from one message to the next
NonDecreasing(conversation) ==
    \A i \in 1..(Len(conversation) - 1) :
        str_le(conversation[i].timestamp, conversation[i + 1].timestamp)

\* C17: round trip of add_to_conversation.  For either agent, in the store as it is,
\* with the agent's conversation emptied and with it removed: after
\* add_to_conversation(role, content) the conversation read back is the previous one
\* followed by one message of that role and content, and the timestamps of the
\* whole conversation are non-decreasing in the order of insertion; so are those of
\* every conversation the store holds.
C17_AddMessageRoundTrip ==
    \A id \in {BRD, DBC} :
        /\ NonDecreasing(Conversation(id))
        /\ \A ss \in {session_state,
                      DictPut(session_state, conversation_key(id), <<>>),
                      DictDel(session_state, {conversation_key(id)})},
              role \in {"user", "assistant"} :
              LET before == get_conversation_history(ss, id)
                  after == get_conversation_history(
                               add_to_conversation(ss, id, role, IN_hello, clock), id)
              IN  /\ Len(after) = Len(before) + 1
                  /\ SubSeq(after, 1, Len(before)) = before
                  /\ after[Len(after)].role = role
                  /\ after[Len(after)].content = IN_hello
                  /\ NonDecreasing(after)

(***************************************************************************)
(* Claims about update_session_data (checked under SpecBrd)                *)
(***************************************************************************)

\* the data handed to update_session_data: one new key, a key the session holds
\* already, and (as the handlers of the agents do) the whole session with a key added
Partials(ss, id) ==
    { [document_name |-> "other.pdf"],
      [context |-> [topic |-> "capital"]],
      DictUpdate(get_session_data(ss, id), [processed_at |-> 0]) }

\* update_session_data(partial) at time now, as the claim states it: afterwards every
\* key of partial has partial's value, every other key of the session but
\* last_activity has its previous value, last_activity is now, and the rest of the
\* store, the conversation included, is unchanged.  Strict: also for a last_activity
\* that partial itself carries.
Merged(ss, id, partial, now, strict) ==
    LET old == get_session_data(ss, id)
        ss2 == update_session_data(ss, id, partial, now)
        new == get_session_data(ss2, id)
    IN  /\ DOMAIN new = DOMAIN old \cup DOMAIN partial \cup {"last_activity"}
        /\ \A k \in DOMAIN partial :
              (strict \/ k # "last_activity") => new[k] = partial[k]
        /\ \A k \in DOMAIN old \ (DOMAIN partial \cup {"last_activity"}) : new[k] = old[k]
        /\ new["last_activity"] = now
        /\ DOMAIN ss2 = DOMAIN ss \cup {session_key(id)}
        /\ \A k \in DOMAIN ss \ {session_key(id)} : ss2[k] = ss[k]
        /\ get_conversation_history(ss2, id) = get_conversation_history(ss, id)

\* the keys Analyze Document and Generate BRD write
HandlerKeys ==
    {"document_text", "extracted_images", "extracted_formulas", "document_analysis",
     "document_name", "processed_at", "brd_content", "quality_scores", "compliance_checks",
     "generated_at", "template_type", "quality_level", "compliance_focus"}

\* C19, as stated: update_session_data(partial) leaves every key of partial with
\* partial's value, every other key but last_activity with its previous value,
\* last_activity refreshed and the conversation unchanged.
C19_Original ==
    \A id \in {BRD, DBC} : \A partial \in Partials(session_state, id) :
        Merged(session_state, id, partial, clock, TRUE)

\* C19, amended: the same, except that last_activity is the time of the call even
\* when partial carries a last_activity of its own (the handlers pass the session
\* they read, which does).  In every state a step leads to, and in every step of
\* Analyze Document or Generate BRD that stored its result: the session keeps the
\* keys it had, those the handler does not write with their values, and
\* last_activity is the time of the step.
C19_Amended ==
    [][ /\ \A id \in {BRD, DBC} : \A partial \in Partials(session_state', id) :
              Merged(session_state', id, partial, clock', FALSE)
        /\ ( /\ last'.op \in {"analyze_document", "generate_brd"} /\ last'.outcome = "ok"
             /\ session_state' # session_state )
              => LET old == get_session_data(session_state, BRD)
                     new == get_session_data(session_state', BRD)
                 IN  /\ DOMAIN old \subseteq DOMAIN new
                     /\ \A k \in DOMAIN old \ (HandlerKeys \cup {"last_activity"}) :
                           new[k] = old[k]
                     /\ new["last_activity"] = clock
                     /\ DOMAIN new \cap HandlerKeys # {}
      ]_vars

\* Analyze Document has stored its result in a session made at an earlier time
C19_Witness ==
    /\ last.op = "analyze_document" /\ last.outcome = "ok"
    /\ clock > 0
    /\ LET session_data == get_session_data(session_state, BRD)
       IN  /\ session_data["last_activity"] = clock
           /\ session_data["initialized"]
           /\ "document_name" \in DOMAIN session_data

(***************************************************************************)
(* Claims about the isolation of the agents (checked under SpecSession)    *)
(***************************************************************************)

\* the session and the conversation of agent id are in store after exactly as in
\* store before: each present in both with one value, or absent from both
SameRegions(id, before, after) ==
    \A k \in {session_key(id), conversation_key(id)} :
        /\ k \in DOMAIN after <=> k \in DOMAIN before
        /\ k \in DOMAIN before => after[k] = before[k]

\* what is done to one agent's regions: a chat turn (add_to_conversation), Analyze
\* Document and Connect (update_session_data), Clear Chat and the agent's Reset
RegionOps == {"chat_turn", "analyze_document", "connect", "clear_chat", "reset_agent"}

\* C20: the regions of two agents are isolated.  For agent A and the other agent B:
\* a step that appends to A's conversation, updates A's session, clears A's chat or
\* resets A leaves B's session and B's conversation as they were; and so do
\* add_to_conversation, update_session_data and initialize_session applied for A to
\* the store the step leads to.
C20_AgentsIsolated ==
    [][ \A A \in {BRD, DBC} :
          /\ (last'.agent = A /\ last'.op \in RegionOps)
                => SameRegions(Other(A), session_state, session_state')
          /\ LET ss == session_state'
             IN  /\ SameRegions(Other(A), ss,
                                add_to_conversation(ss, A, "user", IN_hello, clock'))
                 /\ SameRegions(Other(A), ss,
                                update_session_data(ss, A, [document_name |-> "other.pdf"],
                                                    clock'))
                 /\ SameRegions(Other(A), ss, initialize_session(ss, A, clock'))
      ]_vars

\* the database agent has just been reset while the BRD agent's session held a
\* document and its conversation messages
C20_Witness ==
    /\ last.op = "reset_agent" /\ last.agent = DBC
    /\ "document_name" \in DOMAIN get_session_data(session_state, BRD)
    /\ Len(get_conversation_history(session_state, BRD)) >= 3
    /\ session_key(DBC) \notin DOMAIN session_state

(***************************************************************************)
(* Claims about the connection tab (checked under SpecDb)                  *)
(***************************************************************************)

HasDescribeWord(input) ==
    Contains(lower(input), W_describe) \/ Contains(lower(input), W_structure)
\* the mock translator's first rule: the input has both "all" and "from"
HasAllFrom(input) == Contains(lower(input), W_all) /\ Contains(lower(input), W_from)
IN_show_me_all_customers_table == NLPhrases[1] \o <<" ">> \o NLObjects[8]
IN_count_all_from_customers == NLPhrases[10] \o <<" ">> \o NLObjects[1]

\* the order of the rules as C22 states it, for one translator's result on a catalog:
\* the table-list rule beats every table rule, then count beats show beats describe
RuleOrder(result, input, catalog) ==
    /\ AsksForTableList(input) => result = SQL_TABLES
    /\ \A i \in 1..Len(catalog) :
          (FirstNamed(input, catalog, catalog[i]) /\ ~AsksForTableList(input)) =>
              /\ HasCountWord(input)
                    => result \in {SQL_COUNT_AS \o catalog[i], SQL_COUNT \o catalog[i]}
              /\ (~HasCountWord(input) /\ HasShowWord(input))
                    => IsPrefix(SQL_SELECT \o catalog[i], result)
              /\ (~HasCountWord(input) /\ ~HasShowWord(input) /\ HasDescribeWord(input))
                    => result = SQL_DESC_1 \o catalog[i] \o SQL_DESC_2

\* C22 as stated: in either translator the show/list/display + "table" rule beats
\* every table rule even when the input names a catalog table, and for a matched
\* table a count keyword beats a show keyword, which beats describe/structure.
C22_Original ==
    /\ DriverDone => RuleOrder(nl_result.driver, nl_input, nl_catalog)
    /\ MockDone => RuleOrder(nl_result.mock, nl_input, MockTables)

\* C22 amended: the driver-backed translator applies its rules in that order (the
\* table-list rule first, then for the first named table count before show before
\* describe/structure), and its result is the value of the rules on the input and
\* the table list alone; the mock translator has no table-list rule and another
\* order: for its first named table, "all" with "from" gives SELECT * even when
\* the input has "count", and "count" without that pair gives SELECT COUNT(*).
C22_Amended ==
    /\ DriverDone =>
          /\ RuleOrder(nl_result.driver, nl_input, nl_catalog)
          /\ nl_result.driver = natural_language_to_sql(nl_input, nl_catalog)
    /\ MockDone =>
          \A i \in 1..Len(MockTables) :
              FirstNamed(nl_input, MockTables, MockTables[i]) =>
                  /\ HasAllFrom(nl_input) => nl_result.mock = SQL_SELECT \o MockTables[i]
                  /\ (~HasAllFrom(nl_input) /\ Contains(lower(nl_input), W_count))
                        => nl_result.mock = SQL_COUNT \o MockTables[i]

\* "show me all customers table" names CUSTOMERS and still gets the table list from
\* the driver-backed translator, while the mock one has no query for it
C22_Witness ==
    /\ nl_input = IN_show_me_all_customers_table
    /\ nl_catalog = <<T_CUSTOMERS, T_ORDERS>>
    /\ nl_result.driver = SQL_TABLES
    /\ nl_result.mock = None

(***************************************************************************)
(* Claims about the row limit (SpecTranslator)                             *)
(***************************************************************************)
IN_show_me_all_customers_sample_25 ==
    NLPhrases[1] \o <<" ">> \o NLObjects[1] \o NLSuffixes[3]
IN_top_5_from_customers == NLPhrases[11] \o <<" ">> \o NLObjects[1]
\* the row-limited select on T with limit n, and the mock's limit for an input
Limited(T, n) == SQL_SELECT \o T \o SQL_ROWNUM \o n
FirstNumberOr10(input) ==
    IF findall_digits(input, 1) # <<>> THEN findall_digits(input, 1)[1] ELSE W_10

\* C23 as stated: in either translator an input naming a catalog table T with a show
\* keyword and a limit keyword of {first, top, 10, sample} gives the select on T
\* limited to exactly 10 rows, whatever numbers the input has, and with a show
\* keyword and no limit keyword the unbounded select on T.
C23_Original ==
    /\ DriverDone =>
          \A i \in 1..Len(nl_catalog) :
              (FirstNamed(nl_input, nl_catalog, nl_catalog[i]) /\ HasShowWord(nl_input)) =>
                  /\ HasLimitWord(nl_input) => nl_result.driver = Limited(nl_catalog[i], W_10)
                  /\ ~HasLimitWord(nl_input) => nl_result.driver = SQL_SELECT \o nl_catalog[i]
    /\ MockDone =>
          \A i \in 1..Len(MockTables) :
              (FirstNamed(nl_input, MockTables, MockTables[i]) /\ HasShowWord(nl_input)) =>
                  /\ HasLimitWord(nl_input) => nl_result.mock = Limited(MockTables[i], W_10)
                  /\ ~HasLimitWord(nl_input) => nl_result.mock = SQL_SELECT \o MockTables[i]

\* C23 amended: in the driver-backed translator an input that does not ask for the
\* table list, has no count keyword and has a show keyword gives, for its first named
\* table T, the select on T limited to exactly 10 rows when it has a limit keyword of
\* {first, top, 10, sample}, whatever numbers it has, and the unbounded select on T
\* otherwise; the mock translator limits only on top/first/limit (without "count" and
\* without "all" and "from" together) and takes the limit from the first number of
\* the input, 10 when there is none: "top 5 from customers" is limited to 5 rows.
C23_Amended ==
    /\ DriverDone =>
          \A i \in 1..Len(nl_catalog) :
              ( /\ FirstNamed(nl_input, nl_catalog, nl_catalog[i])
                /\ ~AsksForTableList(nl_input)
                /\ ~HasCountWord(nl_input) /\ HasShowWord(nl_input) ) =>
                  /\ HasLimitWord(nl_input) => nl_result.driver = Limited(nl_catalog[i], W_10)
                  /\ ~HasLimitWord(nl_input) => nl_result.driver = SQL_SELECT \o nl_catalog[i]
    /\ MockDone =>
          /\ \A i \in 1..Len(MockTables) :
                ( /\ FirstNamed(nl_input, MockTables, MockTables[i])
                  /\ ~HasAllFrom(nl_input) /\ ~Contains(lower(nl_input), W_count)
                  /\ AnyIn(<<W_top, W_first, W_limit>>, lower(nl_input)) )
                    => nl_result.mock = Limited(MockTables[i], FirstNumberOr10(nl_input))
          /\ nl_input = IN_top_5_from_customers
                => nl_result.mock = Limited(T_CUSTOMERS, <<"5">>)

\* "show me all customers sample 25" is limited to 10 rows by the driver-backed
\* translator, the 25 notwithstanding
C23_Witness ==
    /\ nl_input = IN_show_me_all_customers_sample_25
    /\ nl_catalog = <<T_CUSTOMERS, T_ORDERS>>
    /\ nl_result.driver = Limited(T_CUSTOMERS, W_10)
    /\ MockDone

(***************************************************************************)
(* Claims about table names that contain a keyword (SpecTranslator)        *)
(***************************************************************************)
IN_list_accounts == NLPhrases[4] \o <<" ">> \o NLObjects[6]
\* the input is one show keyword, a blank and the name of T in any letter case
ShowKeywordThenTable(input, T) ==
    \E kw \in {W_show, W_display, W_list, W_all} : lower(input) = kw \o <<" ">> \o lower(T)

\* C29: an input made of one show keyword followed by the name of a catalog table T
\* gives the unbounded select on T, whatever the spelling of T, also when T's name
\* contains a keyword (ACCOUNTS contains "count", TOTALS contains "total").
C29_TemplateIgnoresTableSpelling ==
    DriverDone =>
        \A i \in 1..Len(nl_catalog) :
            ShowKeywordThenTable(nl_input, nl_catalog[i])
                => nl_result.driver = SQL_SELECT \o nl_catalog[i]

\* the same statement for the tables whose names contain no keyword: it holds there
C29_HoldsForPlainNames ==
    DriverDone =>
        \A i \in 1..Len(nl_catalog) :
            ( /\ ShowKeywordThenTable(nl_input, nl_catalog[i])
              /\ ~HasCountWord(nl_catalog[i]) /\ ~HasLimitWord(nl_catalog[i]) )
                => nl_result.driver = SQL_SELECT \o nl_catalog[i]

\* "list accounts" on a catalog with ACCOUNTS has been translated to the count
C29_CountOnAccounts ==
    /\ nl_input = IN_list_accounts
    /\ nl_catalog = <<T_ACCOUNTS, T_TOTALS>>
    /\ nl_result.driver = SQL_COUNT_AS \o T_ACCOUNTS

(***************************************************************************)
(* Claims about the generic fallback (SpecTranslator)                      *)
(***************************************************************************)
IN_list_tables == NLPhrases[4] \o <<" ">> \o NLObjects[7]
\* lines 472-504 and 511: the driver-backed translator with lines 506-508 removed
natural_language_to_sql_without_fallback(user_input, tables) ==
    LET user_input_lower == lower(user_input)
        by_table == TableRules(mentioned_table(tables, user_input_lower), user_input_lower)
    IN  IF Rule1(user_input_lower) THEN SQL_TABLES
        ELSE IF by_table # None THEN by_table
        ELSE None

\* C30: the generic fallback of the driver-backed translator never decides the
\* output: an input that satisfies it ("tables" with show/list) satisfies the first
\* rule already, and without the fallback the result is the same for every input and
\* every table list.
C30_FallbackNeverDecides ==
    /\ GenericFallback(lower(nl_input)) => Rule1(lower(nl_input))
    /\ natural_language_to_sql(nl_input, nl_catalog)
          = natural_language_to_sql_without_fallback(nl_input, nl_catalog)
    /\ DriverDone =>
          nl_result.driver = natural_language_to_sql_without_fallback(nl_input, nl_catalog)

\* "list tables" satisfies the fallback's test and has been answered with the table list
C30_Witness ==
    /\ nl_input = IN_list_tables
    /\ GenericFallback(lower(nl_input))
    /\ nl_result.driver = SQL_TABLES

(***************************************************************************)
(* Claims about the quick-action buttons (checked under SpecQuick)         *)
(***************************************************************************)
\* the canned question of each button: database_chat_agent.py 244/251/258 and
\* 595/602/609, brd_generator_agent.py 91/98
CannedQuestion ==
    [show_tables |-> <<"Show all tables">>,
     table_sizes |-> <<"Show table row counts">>,
     table_counts |-> <<"Show table row counts">>,
     db_info |-> <<"Show database information">>,
     recent_data |-> <<"Show recent data">>,
     brd_process |-> <<"Explain the BRD generation process">>,
     regulatory_frameworks |-> <<"What regulatory frameworks do you support?">>]

\* the step appended to agent id's conversation exactly the question asked by a
\* user and then the handler's response, and left the earlier messages in place
AppendedQuestionAndResponse(id, asked) ==
    LET before == get_conversation_history(session_state, id)
        after == get_conversation_history(session_state', id)
        n == Len(before)
    IN  /\ Len(after) = n + 2
        /\ SubSeq(after, 1, n) = before
        /\ after[n + 1].role = "user" /\ after[n + 1].content = asked
        /\ after[n + 2].role \in {"assistant", "agent"}
        /\ after[n + 2].content = last'.response
        /\ last'.outcome = "ok"

\* C24: every quick-action button of either agent appends exactly two messages, the
\* user message with the button's canned question and then the handler's response;
\* when the handler raises, the step appends nothing at all.
C24_QuickActionAppendsPair ==
    [][ /\ \A q \in QuickTypes :
              (\E tl \in TableListOutcomes, ex \in ExecOutcomes : QuickQuery(q, tl, ex))
                  => AppendedQuestionAndResponse(DBC, CannedQuestion[q])
        /\ \A q \in MockQuickTypes :
              /\ MockQuickQuery(q, None) => AppendedQuestionAndResponse(DBC, CannedQuestion[q])
              /\ (\E f \in ProcessFailures \ {None} : MockQuickQuery(q, f))
                    => (session_state' = session_state /\ last'.outcome = "raised")
        /\ \A t \in QuickStartTopics :
              /\ BrdQuickStart(t, None) => AppendedQuestionAndResponse(BRD, CannedQuestion[t])
              /\ (\E f \in ProcessFailures \ {None} : BrdQuickStart(t, f))
                    => (session_state' = session_state /\ last'.outcome = "raised")
      ]_vars

\* a quick query of the mock has raised on a conversation that holds an earlier
\* pair, and the conversation still holds that pair only
C24_Witness ==
    /\ last.op = "quick_query" /\ last.outcome = "raised"
    /\ backend = "mock"
    /\ Len(get_conversation_history(session_state, DBC)) = 2
    /\ get_conversation_history(session_state, DBC)[1].content \in
          {CannedQuestion[q] : q \in MockQuickTypes}

(***************************************************************************)
(* Claims about the sidebar's buttons (checked under SpecLifecycle)        *)
(***************************************************************************)
\* agent id's session record exists with initialized = true, context and history
HasInitializedSession(ss, id) ==
    /\ session_key(id) \in DOMAIN ss
    /\ {"initialized", "context", "history"} \subseteq DOMAIN ss[session_key(id)]
    /\ ss[session_key(id)].initialized = TRUE

\* C26: whenever an agent processes a turn or an update, after any sequence of
\* turns, updates, Clear Chat, per-agent Reset, New Chat, Reset All and Refresh, its
\* session record exists, before and after the step, with initialized = true and
\* its context and history fields: a reset session is re-created before it is used.
C26_SessionInitializedWhenUsed ==
    [][ /\ (BrdChatTurn(IN_hello) \/ \E out \in DocumentOutcomes : AnalyzeDocument(out))
              => /\ HasInitializedSession(session_state, BRD)
                 /\ HasInitializedSession(session_state', BRD)
        /\ (FormTurn(IN_tell_me_a_joke, None) \/ Connect("given", [kind |-> "ok"]))
              => /\ HasInitializedSession(session_state, DBC)
                 /\ HasInitializedSession(session_state', DBC)
      ]_vars

\* an update has written a session record that lacks the initialized flag
C26_UpdateOnResetSession ==
    /\ last.op = "analyze_document" /\ last.outcome = "ok"
    /\ session_key(BRD) \in DOMAIN session_state
    /\ "initialized" \notin DOMAIN session_state[session_key(BRD)]

\* the per-agent session and conversation entries of the session state
PerAgentKeys == { session_key(id) : id \in {BRD, DBC} } \cup { conversation_key(id) : id \in {BRD, DBC} }

\* C27: New Chat sets the selected agent to none and, apart from the per-agent
\* session and conversation entries, leaves every entry of the process-wide state
\* as it was: the agent manager with its agents and their database connection
\* (status, connector, query history), the agent configs, the user profile.
C27_NewChatFrame ==
    [][ (\E f \in {NoFault} \cup ConstructorFaults : NewChat(f))
            => /\ session_state'[K_selected_agent] = NoAgent
               /\ \A k \in DOMAIN session_state \ (PerAgentKeys \cup {K_selected_agent}) :
                      k \in DOMAIN session_state' /\ session_state'[k] = session_state[k]
               /\ agents' = agents
               /\ connection_status' = connection_status
               /\ oracle_connector' = oracle_connector
               /\ query_history' = query_history
      ]_vars

\* New Chat has left the database agent disconnected while the connection that was
\* opened before is still live
C27_ConnectionLostByNewChat ==
    /\ last.op = "new_chat"
    /\ connection_status = "disconnected" /\ oracle_connector = PyNone
    /\ open_handles # {}
    /\ session_state[K_user_profile] = "User(user1)"

\* C28: at any time at most one database connection opened by the agent is live, and
\* it is the one the agent's connector holds: a connector is replaced or dropped
\* (second Connect, Disconnect, Refresh, New Chat) only after its connection was closed.
C28_AtMostOneLiveConnection ==
    /\ Cardinality(open_handles) <= 1
    /\ \A h \in open_handles : oracle_connector # PyNone /\ oracle_connector.connection = h

\* a second Connect while connected has left two connections live
C28_TwoLiveConnections ==
    /\ last.op = "connect" /\ last.outcome = "ok"
    /\ Cardinality(open_handles) = 2
    /\ oracle_connector.connection \in open_handles

\* Refresh has dropped the connector while its connection is live
C28_LiveAfterRefresh ==
    /\ last.op = "refresh"
    /\ oracle_connector = PyNone
    /\ open_handles # {}

(***************************************************************************)
(* Claims about interleaved add_to_conversation calls (SpecAddMessage)     *)
(***************************************************************************)
\* the two callers read different list objects
ReadDifferentLists == add_calls.local[1] # add_calls.local[2]

\* C25: add_to_conversation reads the list, appends and writes it back with no lock.
\* When two calls for one agent have both finished, the stored conversation either
\* holds both messages after the earlier ones (the calls appended to one list
\* object), or holds one of the two messages and nothing else (each call read a list
\* of its own, which happens only when the conversation key was absent when the
\* calls began; the later write replaced the earlier list): the state with a
\* message missing is reachable.
C25_LostMessageOnlyFromOwnLists ==
    AllDone =>
        LET conv == get_conversation_history(session_state, BRD)
            n == Len(add_calls.base)
        IN  /\ ~ReadDifferentLists =>
                  /\ Len(conv) = n + 2
                  /\ SubSeq(conv, 1, n) = add_calls.base
                  /\ {conv[n + 1], conv[n + 2]} = {add_calls.message[1], add_calls.message[2]}
            /\ ReadDifferentLists =>
                  /\ ~add_calls.base_present
                  /\ Len(conv) = 1
                  /\ conv[1] \in {add_calls.message[1], add_calls.message[2]}

\* both calls have finished and the stored conversation holds the reply only: the
\* user's message is missing
C25_Witness ==
    /\ AllDone
    /\ ReadDifferentLists
    /\ Len(get_conversation_history(session_state, BRD)) = 1
    /\ get_conversation_history(session_state, BRD)[1] = add_calls.message[2]
    /\ add_calls.message[1].role = "user"

====
